---- MODULE Spec2Model ----
(***************************************************************************)
(* Session orchestration of the binaural-beats player: the SessionManager  *)
(* (clock, phase machine, tick loop, start/pause/resume/seek/stop), the    *)
(* audio engines it owns, the AmbientEngine buffer cache and the           *)
(* VoiceCueEngine cursor.                                                  *)
(*                                                                         *)
(* Units.  Wall-clock values (performance.now(), startTime, pausedAt,      *)
(* pauseOffset) are integers in milliseconds as in the code.  The code's   *)
(* values in seconds (_elapsed, seek targets, keyframe times, duration)    *)
(* are real numbers; the model holds them in milliseconds as well, so      *)
(* "x / 1000" and "x * 1000" of the code are the identity here and         *)
(* "duration - 0.1" is "duration - 100".  Frequencies are rationals        *)
(* <<numerator, denominator>>.  Gains are integers in units of 1/10000     *)
(* (volumes are percentages, noiseVolume * volume is their product).       *)
(***************************************************************************)
EXTENDS Integers, Sequences, FiniteSets, TLC

VARIABLES
  sm,        \* the SessionManager, its engines and the platform handles it owns
  now,       \* performance.now(), in ms
  visible,   \* document.visibilityState = 'visible'
  lastOp,    \* observer: the operation that made the last step
  lastArg,   \* observer: its argument (seek target in ms), 0 when it has none
  elapsedAtPause, \* observer: the elapsed time when pause() took effect
  calls,     \* the start() and setAmbientSound() calls made so far
  unit       \* the component under test in the component specifications

vars == <<sm, now, visible, lastOp, lastArg, elapsedAtPause, calls, unit>>

------------------------------------------------------------------------------
(* Bounds *)

\* the clock advances at most this many 30-second quanta
MaxClock == 5
\* sessions started in one behaviour of the session specifications
MaxSessions == 1
\* 30 s clock steps of the specification of a session that is only played
MaxTickClock == 7
\* start() and setAmbientSound() calls in one behaviour of the life-cycle specification
MaxCalls == 2
\* in the life-cycle specification the clock advances at most this many 90-second steps
MaxAsyncClock == 2
\* keyframes of the envelopes interpolateFrequency is run on
MaxEnvLen == 3
\* fetchBuffer calls in one behaviour of the cache specification
MaxLoads == 5
\* fetchBuffer calls in flight at once
MaxFetches == 2
\* cues of the lists the cue engine is initialised with
MaxCues == 3
\* runs of the pulse scheduler after IsochronicEngine.start
MaxSchedulerRuns == 12
MaxBeatChanges == 3
MaxSuspendRuns == 4
MaxTempoRuns == 2
MaxSwitches == 2
MaxSwitchTicks == 25

------------------------------------------------------------------------------
(* Rationals *)

RECURSIVE Gcd(_, _)
Gcd(a, b) == IF b = 0 THEN a ELSE Gcd(b, a % b)

\* n / d in lowest terms, d > 0
Rat(n, d) ==
  LET g == Gcd(IF n < 0 THEN -n ELSE n, d)
  IN  <<n \div g, d \div g>>
RatEq(a, b) == a[1] * b[2] = b[1] * a[2]
RatLess(a, b) == a[1] * b[2] < b[1] * a[2]
Min(a, b) == IF a < b THEN a ELSE b
Max(a, b) == IF a > b THEN a ELSE b
RatAbsDiffGt(a, b, c) ==
  LET n == a[1] * b[2] - b[1] * a[2]
      an == IF n < 0 THEN -n ELSE n
  IN  an * c[2] > c[1] * a[2] * b[2]

------------------------------------------------------------------------------
(* Session presets: the configurations the model is run on.  Times in ms.  *)

FP(t, f) == [time |-> t, beatFreq |-> f]

NoScript == [voiceCues |-> << >>, phasedNoise |-> FALSE,
             hasResonant |-> FALSE, rtStart |-> 0, rtEnd |-> 0]

Presets == <<
  \* the scenario of the specification: four keyframes, return phase
  [ duration |-> 180000,
    frequencyEnvelope |-> << FP(0, 10), FP(60000, 10), FP(120000, 6), FP(180000, 6) >>,
    hasReturnPhase |-> TRUE, isochronicAvailable |-> TRUE,
    noiseType |-> "pink", noiseVolume |-> 50,
    ambientSound |-> "none", ambientVolume |-> 0,
    guided |-> FALSE, guidanceScript |-> NoScript ],
  \* three keyframes, return phase
  [ duration |-> 120000,
    frequencyEnvelope |-> << FP(0, 8), FP(60000, 8), FP(120000, 4) >>,
    hasReturnPhase |-> TRUE, isochronicAvailable |-> FALSE,
    noiseType |-> "none", noiseVolume |-> 0,
    ambientSound |-> "rain", ambientVolume |-> 30,
    guided |-> FALSE, guidanceScript |-> NoScript ],
  \* a guided session: two keyframes, no return phase
  [ duration |-> 120000,
    frequencyEnvelope |-> << FP(0, 10), FP(120000, 4) >>,
    hasReturnPhase |-> FALSE, isochronicAvailable |-> FALSE,
    noiseType |-> "pink", noiseVolume |-> 50,
    ambientSound |-> "none", ambientVolume |-> 0,
    guided |-> TRUE,
    guidanceScript |-> [ voiceCues |-> << [time |-> 30000, chime |-> FALSE, chimeOnly |-> FALSE],
                                          [time |-> 90000, chime |-> TRUE, chimeOnly |-> TRUE] >>,
                         phasedNoise |-> TRUE,
                         hasResonant |-> TRUE, rtStart |-> 60000, rtEnd |-> 120000 ] ],
  \* two keyframes, return phase: returnStart is 0.85 * duration
  [ duration |-> 120000,
    frequencyEnvelope |-> << FP(0, 10), FP(60000, 4) >>,
    hasReturnPhase |-> TRUE, isochronicAvailable |-> FALSE,
    noiseType |-> "none", noiseVolume |-> 0,
    ambientSound |-> "none", ambientVolume |-> 0,
    guided |-> FALSE, guidanceScript |-> NoScript ],
  \* an empty envelope
  [ duration |-> 60000,
    frequencyEnvelope |-> << >>,
    hasReturnPhase |-> TRUE, isochronicAvailable |-> FALSE,
    noiseType |-> "none", noiseVolume |-> 0,
    ambientSound |-> "none", ambientVolume |-> 0,
    guided |-> FALSE, guidanceScript |-> NoScript ],
  \* a single keyframe
  [ duration |-> 60000,
    frequencyEnvelope |-> << FP(0, 7) >>,
    hasReturnPhase |-> TRUE, isochronicAvailable |-> FALSE,
    noiseType |-> "none", noiseVolume |-> 0,
    ambientSound |-> "none", ambientVolume |-> 0,
    guided |-> FALSE, guidanceScript |-> NoScript ]
>>

PresetIds == 1 .. Len(Presets)
NoPreset == 0

------------------------------------------------------------------------------
(* Envelope interpolation and the phase rule *)

\* the loop of interpolateFrequency: the first i (0-based in the code, 1-based
\* here) with env[i].time <= time < env[i+1].time, or 0 when the loop finds none
RECURSIVE FindSegment(_, _, _)
FindSegment(env, time, i) ==
  IF i > Len(env) - 1 THEN 0
  ELSE IF time >= env[i].time /\ time < env[i + 1].time THEN i
  ELSE FindSegment(env, time, i + 1)

\* interpolateFrequency with the bracketing loop left out: prev and next stay
\* the first and the last keyframe
interpolateEnvelope_endToEnd(env, time) ==
  IF Len(env) = 0 THEN Rat(10, 1)
  ELSE IF Len(env) = 1 THEN Rat(env[1].beatFreq, 1)
  ELSE IF time <= env[1].time THEN Rat(env[1].beatFreq, 1)
  ELSE IF time >= env[Len(env)].time THEN Rat(env[Len(env)].beatFreq, 1)
  ELSE LET prev == env[1]
           next == env[Len(env)]
           segDur == next.time - prev.time
       IN  Rat(prev.beatFreq * segDur
                 + (next.beatFreq - prev.beatFreq) * (time - prev.time),
               segDur)

interpolateEnvelope(env, time) ==
  IF Len(env) = 0 THEN Rat(10, 1)
  ELSE IF Len(env) = 1 THEN Rat(env[1].beatFreq, 1)
  ELSE IF time <= env[1].time THEN Rat(env[1].beatFreq, 1)
  ELSE IF time >= env[Len(env)].time THEN Rat(env[Len(env)].beatFreq, 1)
  ELSE LET i == FindSegment(env, time, 1)
           prev == IF i = 0 THEN env[1] ELSE env[i]
           next == IF i = 0 THEN env[Len(env)] ELSE env[i + 1]
           segDur == next.time - prev.time
       IN  IF segDur = 0 THEN Rat(prev.beatFreq, 1)
           ELSE Rat(prev.beatFreq * segDur
                      + (next.beatFreq - prev.beatFreq) * (time - prev.time),
                    segDur)

interpolateFrequency(s, time) ==
  IF s.preset = NoPreset THEN Rat(10, 1)
  ELSE interpolateEnvelope(Presets[s.preset].frequencyEnvelope, time)

\* returnStart taken from the last keyframe
returnStartOf_lastKeyframe(p) ==
  IF Len(p.frequencyEnvelope) >= 3
    THEN p.frequencyEnvelope[Len(p.frequencyEnvelope)].time
    ELSE (p.duration * 85) \div 100

\* dur * 0.85 with dur in ms (a multiple of 100 in every preset of the model)
returnStartOf(p) ==
  IF Len(p.frequencyEnvelope) >= 3
    THEN p.frequencyEnvelope[Len(p.frequencyEnvelope) - 1].time
    ELSE (p.duration * 85) \div 100

\* the phase rule with the comparison against returnStart turned round
phaseAt_returnBeforeMain(p, t) ==
  IF Len(p.frequencyEnvelope) < 2 THEN "main"
  ELSE IF t < p.frequencyEnvelope[2].time THEN "induction"
  ELSE IF p.hasReturnPhase /\ t < returnStartOf(p) THEN "return"
  ELSE "main"

phaseAt(p, t) ==
  IF Len(p.frequencyEnvelope) < 2 THEN "main"
  ELSE IF t < p.frequencyEnvelope[2].time THEN "induction"
  ELSE IF p.hasReturnPhase /\ t > returnStartOf(p) THEN "return"
  ELSE "main"

updatePhase(s) ==
  IF s.preset = NoPreset THEN s
  ELSE [s EXCEPT !.phase = phaseAt(Presets[s.preset], s.elapsed)]

------------------------------------------------------------------------------
(* The audio layers.  A layer's record holds whether its nodes exist       *)
(* (running) and the target of the last gain automation (gain).  nodeFault *)
(* says that the Web Audio node calls of this teardown raise.              *)

Silent == [running |-> FALSE, gain |-> 0]

\* setVolume / fadeVolume of every engine: no-op without a gain node
fadeVolume(e, target) == IF e.running THEN [e EXCEPT !.gain = target] ELSE e

\* a teardown whose node calls are all inside try/catch never raises
Caught(e) == [e |-> e, threw |-> FALSE]

\* BinauralEngine
BinauralIdle == [running |-> FALSE, gain |-> 0, beat |-> Rat(0, 1), osc |-> FALSE]

startWithContext(e, beat, volume) ==
  [running |-> TRUE, gain |-> volume, beat |-> beat, osc |-> FALSE]

rampBeatFrequency(e, beat, osc) ==
  IF e.running THEN [e EXCEPT !.beat = beat, !.osc = osc] ELSE e

setBeatFrequency(e, beat) ==
  IF e.running THEN [e EXCEPT !.beat = beat, !.osc = FALSE] ELSE e

stopShared(e, nodeFault) == Caught(BinauralIdle)

\* NoiseGenerator
NoiseGenerator_start(e, type, volume) ==
  IF type = "none" THEN e ELSE [running |-> TRUE, gain |-> volume]

NoiseGenerator_stop(e, nodeFault) == Caught(Silent)

\* PhasedNoiseEngine
PhasedNoiseEngine_start(e, volume) == [running |-> TRUE, gain |-> volume]

PhasedNoiseEngine_stop(e, nodeFault) == Caught(Silent)

\* ResonantToneEngine: starts silent and fades itself in to 10^(gainDb/20)
ResonantGain == 5012

ResonantToneEngine_start(e) == [running |-> TRUE, gain |-> ResonantGain]

ResonantToneEngine_stop(e, nodeFault) == Caught(Silent)

\* IsochronicEngine: beat is _beatFreq, scheduler is the 900 ms setInterval
IsochronicIdle == [running |-> FALSE, gain |-> 0, beat |-> Rat(10, 1), scheduler |-> FALSE]

IsochronicEngine_stop(e, nodeFault) ==
  Caught([e EXCEPT !.running = FALSE, !.gain = 0, !.scheduler = FALSE])

IsochronicEngine_start(e, beat, volume) ==
  [IsochronicEngine_stop(e, FALSE).e EXCEPT
     !.running = TRUE, !.gain = volume * 50, !.beat = beat, !.scheduler = TRUE]

IsochronicEngine_setBeatFrequency(e, beat) ==
  [e EXCEPT !.beat = IF RatLess(beat, Rat(1, 1)) THEN Rat(1, 1) ELSE beat]

IsochronicEngine_setVolume(e, volume) ==
  IF e.running THEN [e EXCEPT !.gain = volume * 50] ELSE e

\* The pulse scheduler of IsochronicEngine.  Times are in 1/10 ms of the
\* context's clock; beat is _beatFreq in Hz (a divisor of 10000 in the model,
\* so that the period 1 / _beatFreq is exact); events are the breakpoints of
\* pulseGain.gain: setValueAtTime ("set") and linearRampToValueAtTime ("ramp")
scheduleAhead == 11000
rampTime == 20
SchedulerPeriod == 9000

Breakpoint(t, k, v) == [time |-> t, kind |-> k, value |-> v]

\* the body of the while loop of schedulePulses
CycleBreakpoints(t, period) ==
  { Breakpoint(t, "set", 0), Breakpoint(t + rampTime, "ramp", 1),
    Breakpoint(t + period \div 2 - rampTime, "set", 1),
    Breakpoint(t + period \div 2, "ramp", 0),
    Breakpoint(t + period, "set", 0) }

\* the loop of schedulePulses leaving after its first cycle
PulseLoop_oneCycle(t, endTime, period, events) ==
  IF t < endTime
  THEN [t |-> t + period, events |-> events \cup CycleBreakpoints(t, period)]
  ELSE [t |-> t, events |-> events]

\* while (t < endTime) { ...; t = offEnd }: from t the loop runs once per
\* period until t >= endTime, which is Passes(t, endTime, period) times
Passes(t, endTime, period) ==
  IF t < endTime THEN (endTime - t + period - 1) \div period ELSE 0

PulseLoop(t, endTime, period, events) ==
  [t |-> t + Passes(t, endTime, period) * period,
   events |-> events \cup UNION { CycleBreakpoints(t + k * period, period) :
                                   k \in 0 .. Passes(t, endTime, period) - 1 }]

\* the loop's result stored: this.lastScheduledTime = t
Scheduled(e, r) == [e EXCEPT !.lastScheduledTime = r.t, !.events = r.events]

\* schedulePulses going on from its cursor however far back it lies
schedulePulses_fromCursor(e, ctxTime) ==
  IF ~e.running THEN e
  ELSE Scheduled(e, PulseLoop(e.lastScheduledTime, ctxTime + scheduleAhead,
                              10000 \div e.beat,
                              {b \in e.events : b.time < e.lastScheduledTime}))

\* schedulePulses with the cursor always reset to now
schedulePulses_fromNow(e, ctxTime) ==
  IF ~e.running THEN e
  ELSE Scheduled(e, PulseLoop(ctxTime, ctxTime + scheduleAhead, 10000 \div e.beat,
                              {b \in e.events : b.time < ctxTime}))

\* cancelScheduledValues(startFrom) drops the breakpoints at or after startFrom
schedulePulses(e, ctxTime) ==
  IF ~e.running THEN e
  ELSE LET startFrom == IF e.lastScheduledTime < ctxTime - 1000 THEN ctxTime
                        ELSE Max(e.lastScheduledTime, ctxTime)
       IN  Scheduled(e, PulseLoop(startFrom, ctxTime + scheduleAhead, 10000 \div e.beat,
                                  {b \in e.events : b.time < startFrom}))

\* IsochronicEngine.start as far as the pulse train goes
startPulses(beat, ctxTime) ==
  schedulePulses([running |-> TRUE, beat |-> beat, lastScheduledTime |-> ctxTime,
                  events |-> {}], ctxTime)

\* ChimeEngine
ChimeIdle == [ready |-> FALSE, played |-> "none"]

ChimeEngine_init(e) == [e EXCEPT !.ready = TRUE]

playChime(e, type) == IF e.ready THEN [e EXCEPT !.played = type] ELSE e

ChimeEngine_stop(e) == [e EXCEPT !.ready = FALSE]

------------------------------------------------------------------------------
(* VoiceCueEngine (speech-synthesis version, the one SessionManager.ts     *)
(* initialises with init(cues, options)).  available is                    *)
(* typeof speechSynthesis !== 'undefined'; dispatched is the observer's    *)
(* list of the cue indices consumed since the last init or seek.           *)

VoiceIdle == [cues |-> << >>, nextCueIndex |-> 0, enabled |-> TRUE,
              available |-> TRUE, dispatched |-> << >>]

\* [...cues].sort((a, b) => a.time - b.time): stable insertion by time
RECURSIVE SortCues(_)
SortCues(cues) ==
  IF Len(cues) <= 1 THEN cues
  ELSE LET rest == SortCues(SubSeq(cues, 1, Len(cues) - 1))
           c == cues[Len(cues)]
           k == Cardinality({i \in 1 .. Len(rest) : rest[i].time <= c.time})
       IN  SubSeq(rest, 1, k) \o <<c>> \o SubSeq(rest, k + 1, Len(rest))

VoiceCueEngine_init(v, cues, enabled) ==
  [v EXCEPT !.cues = SortCues(cues), !.nextCueIndex = 0,
            !.enabled = enabled, !.dispatched = << >>]

\* the while loop of tick; indices are 0-based as in the code
RECURSIVE ConsumeCues(_, _, _)
ConsumeCues(v, elapsed, chime) ==
  IF v.nextCueIndex < Len(v.cues) /\ v.cues[v.nextCueIndex + 1].time <= elapsed
    THEN LET cue == v.cues[v.nextCueIndex + 1]
         IN  ConsumeCues([v EXCEPT !.nextCueIndex = @ + 1,
                                   !.dispatched = Append(@, v.nextCueIndex)],
                         elapsed, chime \/ cue.chime \/ cue.chimeOnly)
    ELSE [v |-> v, shouldChime |-> chime]

VoiceCueEngine_tick(v, elapsed) ==
  IF ~v.enabled \/ ~v.available \/ v.nextCueIndex >= Len(v.cues)
    THEN [v |-> v, shouldChime |-> FALSE]
    ELSE ConsumeCues(v, elapsed, FALSE)

\* the binary search of seek
RECURSIVE BinarySearch(_, _, _, _)
BinarySearch(cues, time, lo, hi) ==
  IF lo < hi
    THEN LET mid == (lo + hi) \div 2
         IN  IF cues[mid + 1].time < time
               THEN BinarySearch(cues, time, mid + 1, hi)
               ELSE BinarySearch(cues, time, lo, mid)
    ELSE lo

\* seek whose search compares with <=: the cursor passes the cues at time
VoiceCueEngine_seek_pastEqual(v, time) ==
  IF ~v.available THEN v
  ELSE [v EXCEPT !.nextCueIndex = Cardinality({i \in 1 .. Len(v.cues) : v.cues[i].time <= time}),
                 !.dispatched = << >>]

VoiceCueEngine_seek(v, time) ==
  IF ~v.available THEN v
  ELSE [v EXCEPT !.nextCueIndex = BinarySearch(v.cues, time, 0, Len(v.cues)),
                 !.dispatched = << >>]

VoiceCueEngine_stop(v) ==
  [v EXCEPT !.cues = << >>, !.nextCueIndex = 0, !.dispatched = << >>]

------------------------------------------------------------------------------
(* AmbientEngine.  source is the id of the referenced buffer source (0 for *)
(* null; the gain node is created and dropped with it), ctx the context it *)
(* holds (0 for null; destination is set and cleared with it), nodes the   *)
(* state of every source node created so far.                              *)

MAX_CACHED_BUFFERS == 3

AmbientIdle == [source |-> 0, gain |-> 0, ctx |-> 0, currentSound |-> "none",
                bufferCache |-> {}, cacheOrder |-> << >>, nodes |-> << >>]

AmbientEngine_fadeVolume(a, target) ==
  IF a.source # 0 /\ a.ctx # 0 THEN [a EXCEPT !.gain = target] ELSE a

StopNode(nodes, n) == IF n = 0 THEN nodes ELSE [nodes EXCEPT ![n].state = "stopped"]

\* stop() whose source.stop() is outside a try block
AmbientEngine_stop_unguarded(a, nodeFault) ==
  [e |-> [a EXCEPT !.nodes = IF nodeFault THEN @ ELSE StopNode(@, a.source),
                   !.source = 0, !.gain = 0, !.ctx = 0, !.currentSound = "none"],
   threw |-> nodeFault]

AmbientEngine_stop(a, nodeFault) ==
  Caught([a EXCEPT !.nodes = IF nodeFault THEN @ ELSE StopNode(@, a.source),
                   !.source = 0, !.gain = 0, !.ctx = 0, !.currentSound = "none"])

\* the eviction loop running while cacheOrder.length >= MAX_CACHED_BUFFERS
CacheInsert_evictEarly(a, key) ==
  LET order == Append(a.cacheOrder, key)
      over == IF Len(order) >= MAX_CACHED_BUFFERS
                THEN Len(order) - MAX_CACHED_BUFFERS + 1 ELSE 0
      evicted == {order[i] : i \in 1 .. over}
  IN  [a EXCEPT !.bufferCache = (@ \cup {key}) \ evicted,
                !.cacheOrder = SubSeq(order, over + 1, Len(order))]

\* the "cache with eviction" block of fetchBuffer
CacheInsert(a, key) ==
  LET order == Append(a.cacheOrder, key)
      over == IF Len(order) > MAX_CACHED_BUFFERS THEN Len(order) - MAX_CACHED_BUFFERS ELSE 0
      evicted == {order[i] : i \in 1 .. over}
  IN  [a EXCEPT !.bufferCache = (@ \cup {key}) \ evicted,
                !.cacheOrder = SubSeq(order, over + 1, Len(order))]

\* the statements of start() and switchSound() after the buffer is there
CreateSource(a, ctx, volume) ==
  [a EXCEPT !.nodes = Append(@, [state |-> "playing", ctx |-> ctx]),
            !.source = Len(a.nodes) + 1, !.gain = volume]

------------------------------------------------------------------------------
(* SessionManager *)

\* a suspended call or a pending timer: what it is and what its closure holds
Pending(k, ctx, sound, volume, preset, owner, node, voice) ==
  [k |-> k, ctx |-> ctx, sound |-> sound, volume |-> volume, preset |-> preset,
   owner |-> owner, node |-> node, voice |-> voice]

\* no payload: the operation did not invoke the callback
NoSnapshot == [phase |-> "none", elapsed |-> 0, beatFreq |-> Rat(0, 1), osc |-> FALSE]

InitManager ==
  [ ctx |-> 0, engine |-> BinauralIdle, noise |-> Silent, isochronic |-> IsochronicIdle,
    ambient |-> AmbientIdle, voiceCues |-> VoiceIdle, chime |-> ChimeIdle,
    phasedNoise |-> Silent, resonantTone |-> Silent,
    preset |-> NoPreset, startTime |-> 0, pausedAt |-> 0, pauseOffset |-> 0,
    animFrameId |-> 0, fallbackInterval |-> FALSE,
    phase |-> "idle", elapsed |-> 0, callback |-> FALSE, volume |-> 70,
    isochronicEnabled |-> FALSE, starting |-> FALSE,
    ambientVolume |-> 0, ambientSound |-> "none",
    guidanceScript |-> NoPreset, isGuidedSession |-> FALSE, resonantToneActive |-> FALSE,
    \* platform objects the manager owns
    rafPending |-> 0,        \* animation-frame requests not yet run or cancelled
    rafLive |-> FALSE,       \* animFrameId names one of them
    visListener |-> FALSE,   \* the visibilitychange listener is registered
    ctxState |-> << >>,      \* state of every AudioContext created
    pending |-> << >>,       \* suspended async calls and timers
    \* what the callers and the callback observe
    threw |-> FALSE,         \* the last call raised to its caller / rejected
    caught |-> FALSE,        \* the last tick logged a caught error
    emitted |-> FALSE,       \* the last operation invoked the callback
    reported |-> "none",     \* the phase of the last payload given to the callback
    snapshot |-> NoSnapshot ]  \* the payload the last operation gave to the callback

Fresh(s) == [s EXCEPT !.threw = FALSE, !.caught = FALSE, !.emitted = FALSE,
                      !.snapshot = NoSnapshot]

isPlaying(s) == s.phase # "idle" /\ s.phase # "complete" /\ s.pausedAt = 0
isPaused(s) == s.pausedAt > 0

\* this.callback?.(snapshot); callbackFault: the callback raises
emit(s, snap, callbackFault) ==
  IF ~s.callback THEN s
  ELSE [s EXCEPT !.emitted = TRUE,
                 !.reported = snap.phase,
                 !.snapshot = snap,
                 !.threw = callbackFault]

requestAnimationFrame(s) ==
  [s EXCEPT !.animFrameId = 1, !.rafLive = TRUE, !.rafPending = @ + 1]

stopTickLoop(s) ==
  LET s1 == IF s.animFrameId # 0
              THEN [s EXCEPT !.animFrameId = 0, !.rafLive = FALSE,
                             !.rafPending = IF s.rafLive THEN @ - 1 ELSE @]
              ELSE s
  IN  [s1 EXCEPT !.fallbackInterval = FALSE]

\* the two branches shared by startTickLoop and handleVisibilityChange
armTick(s, vis) ==
  IF ~vis THEN [s EXCEPT !.fallbackInterval = TRUE] ELSE requestAnimationFrame(s)

startTickLoop(s, vis) == armTick(stopTickLoop(s), vis)

handleVisibilityChange(s, vis) ==
  IF s.phase = "idle" \/ s.phase = "complete" \/ s.pausedAt > 0 THEN s
  ELSE armTick(stopTickLoop(s), vis)

ScriptOf(s) == IF s.guidanceScript = NoPreset THEN NoScript
               ELSE Presets[s.guidanceScript].guidanceScript

\* fault: "none", "engine" (an engine call raises) or "callback"
completeSession(s, fault) ==
  LET s1 == stopTickLoop([s EXCEPT !.phase = "complete"])
      fades == s1.preset # NoPreset /\ ~Presets[s1.preset].hasReturnPhase
  IN  IF fades /\ fault = "engine" THEN [s1 EXCEPT !.threw = TRUE]
      ELSE
      LET s2 == IF fades
                  THEN [s1 EXCEPT !.engine = fadeVolume(@, 0),
                                  !.noise = fadeVolume(@, 0),
                                  !.ambient = AmbientEngine_fadeVolume(@, 0),
                                  !.phasedNoise = IF s1.isGuidedSession
                                                    THEN fadeVolume(@, 0) ELSE @]
                  ELSE s1
          s3 == IF s2.isGuidedSession
                  THEN [s2 EXCEPT !.chime = playChime(@, "end"),
                                  !.voiceCues = VoiceCueEngine_stop(@),
                                  !.resonantTone = IF s2.resonantToneActive
                                      THEN ResonantToneEngine_stop(@, FALSE).e ELSE @,
                                  !.resonantToneActive = FALSE]
                  ELSE s2
      IN  emit(s3, [phase |-> "complete",
                    elapsed |-> IF s3.preset # NoPreset
                                  THEN Presets[s3.preset].duration ELSE s3.elapsed,
                    beatFreq |-> s3.engine.beat, osc |-> s3.engine.osc],
               fault = "callback")

updateResonantTone(s, elapsed) ==
  IF ~ScriptOf(s).hasResonant \/ s.ctx = 0 THEN s
  ELSE LET inWindow == elapsed >= ScriptOf(s).rtStart /\ elapsed < ScriptOf(s).rtEnd
       IN  IF inWindow /\ ~s.resonantToneActive
             THEN [s EXCEPT !.resonantTone = ResonantToneEngine_start(@),
                            !.resonantToneActive = TRUE]
           ELSE IF ~inWindow /\ s.resonantToneActive
             THEN [s EXCEPT !.resonantTone = ResonantToneEngine_stop(@, FALSE).e,
                            !.resonantToneActive = FALSE]
           ELSE s

\* Math.max(freq, 0.1)
AtLeastTenth(f) == IF RatLess(f, Rat(1, 10)) THEN Rat(1, 10) ELSE f

\* the try block of tick from the beat frequency on: s1 is the manager after
\* updatePhase, targetFreq the interpolated frequency.  The habituation term
\* sin(2 pi elapsed / 45) * 0.3 of the main phase is kept symbolic (osc).
tickTo(s1, targetFreq, fault) ==
  LET osc == s1.phase = "main"
      ramps == osc \/ s1.engine.osc
               \/ RatAbsDiffGt(targetFreq, s1.engine.beat, Rat(1, 100))
  IN  IF ramps /\ fault = "engine" THEN [s1 EXCEPT !.threw = TRUE]
      ELSE
      LET s2 == IF ramps
                  THEN [s1 EXCEPT !.engine = rampBeatFrequency(@, targetFreq, osc)]
                  ELSE s1
          s3 == IF s2.isochronicEnabled
                  THEN [s2 EXCEPT !.isochronic = IsochronicEngine_setBeatFrequency(@, targetFreq)]
                  ELSE s2
          vt == VoiceCueEngine_tick(s3.voiceCues, s3.elapsed)
          s4 == IF s3.isGuidedSession /\ s3.guidanceScript # NoPreset
                  THEN updateResonantTone(
                         [s3 EXCEPT !.voiceCues = vt.v,
                                    !.chime = IF vt.shouldChime
                                                THEN playChime(@, "transition") ELSE @],
                         s3.elapsed)
                  ELSE s3
      IN  emit(s4, [phase |-> s4.phase, elapsed |-> s4.elapsed,
                    beatFreq |-> targetFreq, osc |-> osc],
               fault = "callback")

\* let targetFreq = Math.max(this.interpolateFrequency(this._elapsed), 0.1)
tickAt(s1, fault) == tickTo(s1, AtLeastTenth(interpolateFrequency(s1, s1.elapsed)), fault)

\* the try block of tick for elapsed < duration
tickBody(s, fault) == tickAt(updatePhase(s), fault)

\* the try block of tick; returned: it left the function (session complete)
tryTick(s1, fault) ==
  IF s1.elapsed >= Presets[s1.preset].duration
    THEN [s |-> completeSession(s1, fault), returned |-> TRUE]
    ELSE [s |-> tickBody(s1, fault), returned |-> FALSE]

\* the re-scheduling after the try/catch of tick
rearm(s, vis) ==
  IF vis /\ ~s.fallbackInterval THEN requestAnimationFrame(s) ELSE s

\* a catch block that leaves the function: no re-scheduling after an error
afterTry_lostOnError(r, vis) ==
  IF r.s.threw THEN [r.s EXCEPT !.threw = FALSE, !.caught = TRUE]
  ELSE IF r.returned THEN r.s
  ELSE rearm(r.s, vis)

\* catch (err) { console.error(...) } and what follows the try statement
afterTry(r, vis) ==
  IF r.s.threw THEN rearm([r.s EXCEPT !.threw = FALSE, !.caught = TRUE], vis)
  ELSE IF r.returned THEN r.s
  ELSE rearm(r.s, vis)

tick(s, t, vis, fault) ==
  IF s.preset = NoPreset \/ s.pausedAt > 0 THEN s
  ELSE afterTry(tryTick([s EXCEPT !.elapsed = t - s.startTime - s.pauseOffset], fault), vis)

pause(s, t) ==
  IF s.pausedAt > 0 \/ s.phase = "idle" \/ s.phase = "complete" THEN s
  ELSE LET s1 == stopTickLoop([s EXCEPT !.pausedAt = t])
           s2 == [s1 EXCEPT !.engine = fadeVolume(@, 0),
                            !.noise = fadeVolume(@, 0),
                            !.ambient = AmbientEngine_fadeVolume(@, 0),
                            !.isochronic = IF s1.isochronicEnabled
                                             THEN IsochronicEngine_setVolume(@, 0) ELSE @]
       IN  IF s2.isGuidedSession
             THEN [s2 EXCEPT !.phasedNoise = fadeVolume(@, 0),
                             !.resonantTone = IF s2.resonantToneActive
                                                THEN fadeVolume(@, 0) ELSE @]
             ELSE s2

\* resume that sets pauseOffset to the last pause instead of adding it
resumeClock_lastPauseOnly(s, t) ==
  [s EXCEPT !.pauseOffset = t - s.pausedAt, !.pausedAt = 0]

\* this.pauseOffset += performance.now() - this.pausedAt; this.pausedAt = 0
resumeClock(s, t) ==
  [s EXCEPT !.pauseOffset = @ + (t - s.pausedAt), !.pausedAt = 0]

\* the completion check of resume with the duration taken for milliseconds
resumeCompletes_durationInMs(s1, elapsed) ==
  s1.preset # NoPreset /\ elapsed >= Presets[s1.preset].duration * 1000

\* if (this.preset && elapsed >= this.preset.duration)
resumeCompletes(s1, elapsed) ==
  s1.preset # NoPreset /\ elapsed >= Presets[s1.preset].duration

resume(s, t, vis) ==
  IF s.pausedAt = 0 THEN s
  ELSE LET s1 == resumeClock(s, t)
           elapsed == t - s1.startTime - s1.pauseOffset
       IN  IF resumeCompletes(s1, elapsed)
             THEN completeSession(s1, "none")
           ELSE
           LET s2 == [s1 EXCEPT
                        !.engine = fadeVolume(@, s1.volume * 100),
                        !.noise = IF s1.preset # NoPreset
                                    THEN fadeVolume(@, Presets[s1.preset].noiseVolume * s1.volume)
                                    ELSE @,
                        !.ambient = AmbientEngine_fadeVolume(@, s1.ambientVolume * 100),
                        !.isochronic = IF s1.isochronicEnabled
                                         THEN IsochronicEngine_setVolume(@, s1.volume) ELSE @]
               s3 == IF s2.isGuidedSession /\ s2.preset # NoPreset
                       THEN [s2 EXCEPT
                               !.phasedNoise = fadeVolume(@, Presets[s2.preset].noiseVolume * s2.volume),
                               !.resonantTone = IF s2.resonantToneActive
                                                  THEN fadeVolume(@, ResonantGain) ELSE @]
                       ELSE s2
           IN  startTickLoop(s3, vis)

fadeOut(s) ==
  LET s1 == [s EXCEPT !.engine = fadeVolume(@, 0),
                      !.noise = fadeVolume(@, 0),
                      !.ambient = AmbientEngine_fadeVolume(@, 0),
                      !.isochronic = IF s.isochronicEnabled
                                       THEN IsochronicEngine_setVolume(@, 0) ELSE @]
  IN  IF s1.isGuidedSession
        THEN [s1 EXCEPT !.phasedNoise = fadeVolume(@, 0),
                        !.resonantTone = IF s1.resonantToneActive
                                           THEN fadeVolume(@, 0) ELSE @]
        ELSE s1

\* ctx.close() of stop(): the context counts as closed from the call on
CloseContext(states, c) ==
  IF c # 0 /\ states[c] # "closed" THEN [states EXCEPT ![c] = "closed"] ELSE states

\* the engine teardowns of stop(), in order; the first one that raises ends it
stopEngines(s, nodeFault) ==
  LET r1 == stopShared(s.engine, nodeFault)
      r2 == NoiseGenerator_stop(s.noise, nodeFault)
      r3 == IsochronicEngine_stop(s.isochronic, nodeFault)
      r4 == AmbientEngine_stop(s.ambient, nodeFault)
      r7 == PhasedNoiseEngine_stop(s.phasedNoise, nodeFault)
      r8 == ResonantToneEngine_stop(s.resonantTone, nodeFault)
      s1 == [s EXCEPT !.engine = r1.e, !.threw = r1.threw]
      s2 == [s1 EXCEPT !.noise = r2.e, !.threw = r2.threw]
      s3 == [s2 EXCEPT !.isochronic = r3.e, !.threw = r3.threw]
      s4 == [s3 EXCEPT !.ambient = r4.e, !.threw = r4.threw]
      s6 == [s4 EXCEPT !.voiceCues = VoiceCueEngine_stop(@), !.chime = ChimeEngine_stop(@)]
      s7 == [s6 EXCEPT !.phasedNoise = r7.e, !.threw = r7.threw]
      s8 == [s7 EXCEPT !.resonantTone = r8.e, !.threw = r8.threw]
  IN  IF r1.threw THEN s1 ELSE IF r2.threw THEN s2 ELSE IF r3.threw THEN s3
      ELSE IF r4.threw THEN s4 ELSE IF r7.threw THEN s7 ELSE s8

stop(s, nodeFault) ==
  LET s1 == stopEngines([stopTickLoop(s) EXCEPT !.visListener = FALSE], nodeFault)
  IN  IF s1.threw THEN s1
      ELSE [s1 EXCEPT !.ctxState = CloseContext(@, s1.ctx),
                      !.ctx = 0, !.phase = "idle", !.elapsed = 0,
                      !.pauseOffset = 0, !.pausedAt = 0,
                      !.preset = NoPreset, !.callback = FALSE,
                      !.isochronicEnabled = FALSE,
                      !.ambientSound = "none", !.ambientVolume = 0,
                      !.guidanceScript = NoPreset, !.isGuidedSession = FALSE,
                      !.resonantToneActive = FALSE]

setVolume(s, v) ==
  LET s1 == [s EXCEPT !.volume = v]
  IN  IF s1.pausedAt > 0 THEN s1
      ELSE [s1 EXCEPT
              !.engine = fadeVolume(@, v * 100),
              !.noise = IF s1.preset # NoPreset
                          THEN fadeVolume(@, Presets[s1.preset].noiseVolume * v) ELSE @,
              !.phasedNoise = IF s1.preset # NoPreset /\ s1.isGuidedSession /\ @.running
                                THEN fadeVolume(@, Presets[s1.preset].noiseVolume * v) ELSE @,
              !.isochronic = IF s1.isochronicEnabled
                               THEN IsochronicEngine_setVolume(@, v) ELSE @]

\* toggleIsochronic without the isochronicAvailable test
toggleIsochronic_anyPreset(s) ==
  IF s.preset = NoPreset \/ s.ctx = 0 THEN s
  ELSE IF ~s.isochronicEnabled
    THEN [s EXCEPT !.isochronicEnabled = TRUE,
                   !.isochronic = IsochronicEngine_start(@, s.engine.beat,
                                      IF s.pausedAt > 0 THEN 0 ELSE s.volume)]
    ELSE [s EXCEPT !.isochronicEnabled = FALSE,
                   !.isochronic = IsochronicEngine_stop(@, FALSE).e]

toggleIsochronic(s) ==
  IF s.preset = NoPreset \/ ~Presets[s.preset].isochronicAvailable \/ s.ctx = 0 THEN s
  ELSE IF ~s.isochronicEnabled
    THEN [s EXCEPT !.isochronicEnabled = TRUE,
                   !.isochronic = IsochronicEngine_start(@, s.engine.beat,
                                      IF s.pausedAt > 0 THEN 0 ELSE s.volume)]
    ELSE [s EXCEPT !.isochronicEnabled = FALSE,
                   !.isochronic = IsochronicEngine_stop(@, FALSE).e]

\* clampedTime without the upper clamp
clampedTime_noUpperClamp(p, targetTime) == Max(0, targetTime)

\* clampedTime of seek: Math.max(0, Math.min(targetTime, duration - 0.1))
clampedTime(p, targetTime) == Max(0, Min(targetTime, p.duration - 100))

\* the offset of seek taken from the present instant even when paused
seekOffset_fromNow(s, t, clamped) == t - s.startTime - clamped

\* pauseOffset of seek: now - startTime - clampedTime * 1000, now being
\* pausedAt when paused
seekOffset(s, t, clamped) ==
  (IF s.pausedAt > 0 THEN s.pausedAt ELSE t) - s.startTime - clamped

seek(s, t, targetTime) ==
  IF s.preset = NoPreset THEN s
  ELSE LET clamped == clampedTime(Presets[s.preset], targetTime)
           s1 == updatePhase([s EXCEPT !.pauseOffset = seekOffset(s, t, clamped),
                                       !.elapsed = clamped])
           targetFreq == AtLeastTenth(interpolateFrequency(s1, clamped))
           s2 == [s1 EXCEPT !.engine = setBeatFrequency(@, targetFreq),
                            !.isochronic = IF s1.isochronicEnabled
                                             THEN IsochronicEngine_setBeatFrequency(@, targetFreq)
                                             ELSE @,
                            !.voiceCues = IF s1.isGuidedSession
                                            THEN VoiceCueEngine_seek(@, clamped) ELSE @]
       IN  emit(s2, [phase |-> s2.phase, elapsed |-> clamped,
                     beatFreq |-> targetFreq, osc |-> FALSE], FALSE)

setAmbientVolume(s, v) ==
  LET s1 == [s EXCEPT !.ambientVolume = v]
  IN  IF s1.pausedAt > 0 THEN s1
      ELSE [s1 EXCEPT !.ambient = AmbientEngine_fadeVolume(@, v * 100)]

------------------------------------------------------------------------------
(* The asynchronous calls.  A call that awaits leaves a Pending record and *)
(* its continuation runs as a later step; a call whose awaits are all on   *)
(* settled promises (a cache hit) runs to its end in the same step.        *)

RemoveAt(seq, i) == SubSeq(seq, 1, i - 1) \o SubSeq(seq, i + 1, Len(seq))

IsClosed(s, c) == c # 0 /\ s.ctxState[c] = "closed"

\* the rejection of start(): the finally block clears _starting
startFails(s) == [s EXCEPT !.starting = FALSE, !.threw = TRUE]

\* start() after the ambient layer: lines 152-179
startFinish(s, c, t, vis) ==
  IF s.isGuidedSession /\ s.guidanceScript # NoPreset /\ s.ctx = 0
    THEN startFails(s)     \* this.ctx.destination of null
  ELSE
  LET s1 == IF s.isGuidedSession /\ s.guidanceScript # NoPreset
              THEN [s EXCEPT !.chime = playChime(ChimeEngine_init(@), "start"),
                             !.voiceCues = VoiceCueEngine_init(@, ScriptOf(s).voiceCues, c.voice)]
              ELSE s
      s2 == [s1 EXCEPT !.phase = "induction", !.startTime = t, !.visListener = TRUE]
  IN  [startTickLoop(s2, vis) EXCEPT !.starting = FALSE]

\* AmbientEngine.start() without "if (!buffer) return"
ambientLoaded_ignoresFailure(a, c, ok, missed, closed) ==
  LET a1 == IF ok /\ missed THEN CacheInsert(a, c.sound) ELSE a
  IN  IF c.k = "ambient.fetch"
        THEN CreateSource(a1, c.ctx, c.volume)
        ELSE IF ~ok \/ closed THEN a1
             ELSE AmbientEngine_fadeVolume(CreateSource(a1, c.ctx, 0), c.volume)

\* AmbientEngine.start() / switchSound() once fetchBuffer has settled with
\* a buffer (ok) or null; missed: the buffer was fetched, not found cached
ambientLoaded(a, c, ok, missed, closed) ==
  LET a1 == IF ok /\ missed THEN CacheInsert(a, c.sound) ELSE a
  IN  IF c.k = "ambient.fetch"
        THEN IF ok THEN CreateSource(a1, c.ctx, c.volume) ELSE a1
        ELSE IF ~ok \/ closed THEN a1
             ELSE AmbientEngine_fadeVolume(CreateSource(a1, c.ctx, 0), c.volume)

\* what the caller awaiting AmbientEngine.start() does when it resolves
afterAmbientStart(s, c, t, vis) ==
  IF c.owner = "start"
    THEN startFinish([s EXCEPT !.ambient = AmbientEngine_fadeVolume(@, s.ambientVolume * 100)],
                     c, t, vis)
  ELSE [s EXCEPT !.ambient = AmbientEngine_fadeVolume(@, s.ambientVolume * 100)]

\* AmbientEngine.start(ctx, destination, sound, volume) called by owner
ambientStart(s, c, t, vis) ==
  LET s1 == [s EXCEPT !.ambient.ctx = c.ctx, !.ambient.currentSound = c.sound]
  IN  IF c.sound \in s1.ambient.bufferCache
        THEN afterAmbientStart(
               [s1 EXCEPT !.ambient = ambientLoaded(@, c, TRUE, FALSE, FALSE)], c, t, vis)
        ELSE [s1 EXCEPT !.pending = Append(@, c)]

\* start() from "const initialBeatFreq" on, after await this.ctx.resume()
startResumed(s, c, t, vis) ==
  IF s.ctx = 0 THEN startFails(s)     \* this.ctx.destination of null
  ELSE
  LET p == Presets[c.preset]
      initialBeatFreq == Rat(p.frequencyEnvelope[1].beatFreq, 1)
      s1 == [s EXCEPT !.engine = fadeVolume(startWithContext(@, initialBeatFreq, 0),
                                            c.volume * 100)]
      s2 == IF s1.isGuidedSession /\ ScriptOf(s1).phasedNoise
              THEN [s1 EXCEPT !.phasedNoise = PhasedNoiseEngine_start(@, p.noiseVolume * c.volume)]
            ELSE IF p.noiseType # "none"
              THEN [s1 EXCEPT !.noise = fadeVolume(NoiseGenerator_start(@, p.noiseType, 0),
                                                   p.noiseVolume * c.volume)]
            ELSE s1
      s3 == IF s2.isochronicEnabled
              THEN [s2 EXCEPT !.isochronic = IsochronicEngine_start(@, initialBeatFreq, c.volume)]
              ELSE s2
  IN  IF s3.ambientSound # "none"
        THEN ambientStart(s3, Pending("ambient.fetch", s3.ctx, s3.ambientSound, 0,
                                      c.preset, "start", 0, c.voice), t, vis)
        ELSE startFinish(s3, c, t, vis)

\* start() past its guard, up to await this.ctx.resume(); ambientSound "undefined" and the
\* ambient volume that goes with it fall back to the preset's
startCall(s, preset, volume, isochronicEnabled, ambientSound, ambientVolume, voiceEnabled) ==
  LET p == Presets[preset]
      s1 == stop([s EXCEPT !.starting = TRUE], FALSE)
      s2 == [s1 EXCEPT
               !.preset = preset, !.volume = volume, !.callback = TRUE,
               !.pauseOffset = 0, !.pausedAt = 0,
               !.isochronicEnabled = isochronicEnabled /\ p.isochronicAvailable,
               !.ambientSound = IF ambientSound = "undefined" THEN p.ambientSound
                                ELSE ambientSound,
               !.ambientVolume = IF ambientSound = "undefined" THEN p.ambientVolume
                                 ELSE ambientVolume,
               !.guidanceScript = IF p.guided THEN preset ELSE NoPreset,
               !.isGuidedSession = p.guided,
               !.resonantToneActive = FALSE,
               !.reported = "none"]
  IN  IF Len(p.frequencyEnvelope) = 0 THEN startFails(s2)   \* frequencyEnvelope[0].beatFreq
      ELSE [s2 EXCEPT !.ctxState = Append(@, "running"),
                      !.ctx = Len(s2.ctxState) + 1,
                      !.pending = Append(@, Pending("start.resume", 0, "none", volume,
                                                    preset, "start", 0, voiceEnabled))]

\* start() without the re-entrancy guard
start_unguarded(s, preset, volume, isochronicEnabled, ambientSound, ambientVolume, voiceEnabled) ==
  startCall(s, preset, volume, isochronicEnabled, ambientSound, ambientVolume, voiceEnabled)

\* if (this._starting) return
start(s, preset, volume, isochronicEnabled, ambientSound, ambientVolume, voiceEnabled) ==
  IF s.starting THEN s
  ELSE startCall(s, preset, volume, isochronicEnabled, ambientSound, ambientVolume, voiceEnabled)

\* AmbientEngine.switchSound(sound, volume) up to the 200 ms delay
switchSound(s, sound, volume) ==
  IF s.ambient.ctx = 0 THEN s
  ELSE
  LET old == s.ambient.source
      s1 == IF old # 0
              THEN [s EXCEPT !.ambient = AmbientEngine_fadeVolume(@, 0),
                             !.pending = Append(@, Pending("timer.oldSource", 0, "none", 0,
                                                           NoPreset, "none", old, FALSE))]
              ELSE s
  IN  [s1 EXCEPT !.ambient.source = 0, !.ambient.gain = 0,
                 !.pending = Append(@, Pending("switch.delay", s.ambient.ctx, sound, volume,
                                               NoPreset, "none", 0, FALSE))]

setAmbientSound(s, sound, t, vis) ==
  LET s1 == [s EXCEPT !.ambientSound = sound]
  IN  IF s1.ctx = 0 \/ s1.pausedAt > 0 THEN s1
      ELSE IF sound = "none"
        THEN [s1 EXCEPT !.ambient = AmbientEngine_fadeVolume(@, 0),
                        !.pending = Append(@, Pending("timer.ambientStop", 0, "none", 0,
                                                      NoPreset, "none", 0, FALSE))]
      ELSE IF s1.ambient.source # 0
        THEN switchSound(s1, sound, s1.ambientVolume * 100)
      ELSE ambientStart(s1, Pending("ambient.fetch", s1.ctx, sound, 0, NoPreset,
                                    "setAmbientSound", 0, FALSE), t, vis)

\* the continuation of the suspended call or the timer c; ok: the fetch and
\* decode it waited for gave a buffer
continue(s, c, ok, t, vis) ==
  IF c.k = "start.resume" THEN startResumed(s, c, t, vis)
  ELSE IF c.k = "ambient.fetch"
    THEN afterAmbientStart([s EXCEPT !.ambient = ambientLoaded(@, c, ok, TRUE, FALSE)],
                           c, t, vis)
  ELSE IF c.k = "switch.delay"
    THEN IF IsClosed(s, c.ctx) THEN s
         ELSE LET s1 == [s EXCEPT !.ambient.ctx = c.ctx, !.ambient.currentSound = c.sound]
              IN  IF c.sound \in s1.ambient.bufferCache
                    THEN [s1 EXCEPT !.ambient = ambientLoaded(@, c, TRUE, FALSE, FALSE)]
                    ELSE [s1 EXCEPT !.pending = Append(@, [c EXCEPT !.k = "switch.fetch"])]
  ELSE IF c.k = "switch.fetch"
    THEN [s EXCEPT !.ambient = ambientLoaded(@, c, ok, TRUE, IsClosed(s, c.ctx))]
  ELSE IF c.k = "timer.ambientStop"
    THEN [s EXCEPT !.ambient = AmbientEngine_stop(@, FALSE).e]
  ELSE [s EXCEPT !.ambient.nodes = StopNode(@, c.node)]

------------------------------------------------------------------------------
(* The narration engine that plays pre-rendered clips.  Cue i here is the  *)
(* cue of index i - 1 in the code; started and spoken are the clips given  *)
(* to source.start() and the texts given to speechSynthesis.speak();       *)
(* inflight are the clip requests the network has not answered, awaiting   *)
(* the cues whose playAudio waits for one, ready the cues whose playAudio  *)
(* awaits a buffer that is there already (it goes on when the running task *)
(* has returned) and playing the sources started and neither stopped nor   *)
(* ended.                                                                  *)

ClipIdle ==
  [ctx |-> FALSE, cues |-> << >>, nextCueIndex |-> 0, enabled |-> TRUE,
   useFallback |-> FALSE, manifestLoaded |-> FALSE, manifest |-> 0,
   bufferCache |-> {}, fetchPromises |-> {}, activeSource |-> 0,
   loading |-> FALSE, inflight |-> {}, awaiting |-> {}, started |-> {}, spoken |-> {},
   ready |-> << >>, playing |-> {}]

\* init(ctx, destination, trackId, cues, options), cues sorted by time
ClipCueEngine_init(cues, enabled) ==
  [ClipIdle EXCEPT !.ctx = TRUE, !.cues = cues, !.enabled = enabled, !.loading = TRUE]

getSpokenIndex(cues, i) ==
  Cardinality({j \in 1 .. Min(i - 1, Len(cues)) : ~cues[j].chimeOnly})

\* r: "buffer" (cached), "null" (no file for the cue) or "pending"
fetchBuffer(v, i) ==
  IF i \in v.bufferCache THEN [v |-> v, r |-> "buffer"]
  ELSE IF i \in v.fetchPromises THEN [v |-> v, r |-> "pending"]
  ELSE IF getSpokenIndex(v.cues, i) >= v.manifest THEN [v |-> v, r |-> "null"]
  ELSE [v |-> [v EXCEPT !.fetchPromises = @ \cup {i}, !.inflight = @ \cup {i}],
        r |-> "pending"]

RECURSIVE prefetchAhead(_, _, _)
prefetchAhead(v, i, count) ==
  IF i > Len(v.cues) \/ count = 0 THEN v
  ELSE IF ~v.cues[i].chimeOnly /\ v.cues[i].text
    THEN prefetchAhead(fetchBuffer(v, i).v, i + 1, count - 1)
  ELSE prefetchAhead(v, i + 1, count)

\* speechSynthesis is defined
speakFallback(v, i) ==
  IF i <= Len(v.cues) /\ v.cues[i].text THEN [v EXCEPT !.spoken = @ \cup {i}] ELSE v

stopActiveSource(v) ==
  [v EXCEPT !.playing = @ \ {v.activeSource}, !.activeSource = 0]

\* playAudio once it holds the buffer
startClip(v, i) ==
  IF ~v.ctx THEN v
  ELSE [v EXCEPT !.activeSource = i, !.started = @ \cup {i}, !.playing = @ \cup {i}]

\* source.onended
clipEnded(v, i) ==
  [v EXCEPT !.playing = @ \ {i}, !.activeSource = IF @ = i THEN 0 ELSE @]

\* playAudio from the fetch on; f: what fetchBuffer gave
playFetched(f, i) ==
  IF f.r = "buffer" THEN [f.v EXCEPT !.ready = Append(@, i)]
  ELSE IF f.r = "null" THEN speakFallback(f.v, i)
  ELSE [f.v EXCEPT !.awaiting = @ \cup {i}]

playAudio(v, i) ==
  IF ~v.ctx THEN v
  ELSE IF v.useFallback \/ ~v.manifestLoaded
    THEN speakFallback(stopActiveSource(v), i)
  ELSE playFetched(fetchBuffer(stopActiveSource(v), i), i)

\* the calls of playAudio that hold their buffer go on, in the order in
\* which they were made
RECURSIVE playReady(_)
playReady(v) ==
  IF v.ready = << >> THEN v
  ELSE playReady(startClip([v EXCEPT !.ready = Tail(@)], Head(v.ready)))

\* the while loop of tick
RECURSIVE DispatchCues(_, _)
DispatchCues(v, elapsed) ==
  IF v.nextCueIndex < Len(v.cues) /\ v.cues[v.nextCueIndex + 1].time <= elapsed
    THEN DispatchCues(
           IF ~v.cues[v.nextCueIndex + 1].chimeOnly /\ v.cues[v.nextCueIndex + 1].text
                /\ v.enabled
             THEN playAudio([v EXCEPT !.nextCueIndex = @ + 1], v.nextCueIndex + 1)
             ELSE [v EXCEPT !.nextCueIndex = @ + 1],
           elapsed)
    ELSE v

PrefetchAfterTick(v) ==
  IF v.enabled /\ v.manifestLoaded THEN prefetchAhead(v, v.nextCueIndex + 1, 3) ELSE v

ClipCueEngine_tick(v, elapsed) ==
  IF v.nextCueIndex >= Len(v.cues) THEN v
  ELSE PrefetchAfterTick(DispatchCues(v, elapsed))

ClipCueEngine_pause(v) == stopActiveSource(v)

ClipCueEngine_seek(v, time) ==
  LET lo == BinarySearch(v.cues, time, 0, Len(v.cues))
      v1 == [stopActiveSource(v) EXCEPT !.nextCueIndex = lo]
  IN  IF v1.manifestLoaded THEN prefetchAhead(v1, lo + 1, 3) ELSE v1

ClipCueEngine_stop(v) ==
  [stopActiveSource(v) EXCEPT !.cues = << >>, !.nextCueIndex = 0,
            !.bufferCache = {}, !.fetchPromises = {}, !.manifest = 0,
            !.manifestLoaded = FALSE, !.ctx = FALSE]

\* loadManifest once the request has settled; found: the response was ok,
\* files: the number of files the manifest lists for the track
loadManifest(v, found, files) ==
  IF ~found THEN [v EXCEPT !.loading = FALSE, !.useFallback = TRUE]
  ELSE IF files = 0
    THEN [v EXCEPT !.loading = FALSE, !.manifest = 0, !.manifestLoaded = TRUE,
                   !.useFallback = TRUE]
  ELSE prefetchAhead([v EXCEPT !.loading = FALSE, !.manifest = files,
                               !.manifestLoaded = TRUE], 1, 5)

\* a failed clip turns the fallback on for good
clipSettled_fallbackForever(v, i, ok) ==
  LET v1 == [v EXCEPT !.bufferCache = IF ok /\ v.ctx THEN @ \cup {i} ELSE @,
                      !.useFallback = @ \/ ~ok,
                      !.fetchPromises = @ \ {i}, !.inflight = @ \ {i},
                      !.awaiting = @ \ {i}]
  IN  IF i \notin v.awaiting THEN v1
      ELSE IF ok /\ v.ctx THEN startClip(v1, i)
      ELSE speakFallback(v1, i)

\* the request of fetchBuffer settles (ok: fetched and decoded) and the
\* playAudio that awaits it goes on
clipSettled(v, i, ok) ==
  LET v1 == [v EXCEPT !.bufferCache = IF ok /\ v.ctx THEN @ \cup {i} ELSE @,
                      !.fetchPromises = @ \ {i}, !.inflight = @ \ {i},
                      !.awaiting = @ \ {i}]
  IN  IF i \notin v.awaiting THEN v1
      ELSE IF ok /\ v.ctx THEN startClip(v1, i)
      ELSE speakFallback(v1, i)

------------------------------------------------------------------------------
(* The session specification: the operations of the manager's public       *)
(* interface, the browser's callbacks and the passing of time.             *)

Faults == {"none", "engine", "callback"}

NoPause == 0 - 1
NoUnit == << >>

\* the elapsed time recorded at pause() is kept while the session is paused,
\* through the passing of time, the volume controls, visibility changes and
\* ticks; seek, start, stop and the continuation of a suspended call drop it
SincePause == IF sm.pausedAt > 0 THEN elapsedAtPause ELSE NoPause

ClockElapsed(s, t) == (IF s.pausedAt > 0 THEN s.pausedAt ELSE t) - s.startTime - s.pauseOffset

InitSession ==
  /\ sm = InitManager
  /\ now = 5000
  /\ visible \in BOOLEAN
  /\ lastOp = "init"
  /\ lastArg = 0
  /\ elapsedAtPause = NoPause
  /\ calls = 0
  /\ unit = NoUnit

\* time passes; the time before the first start() is not told apart.
\* settled: no call is suspended
Advance(steps, limit, settled) ==
  \E d \in steps :
    /\ sm.ctxState # << >>
    /\ settled => sm.pending = << >>
    /\ now + d <= limit
    /\ now' = now + d
    /\ lastOp' = "other"
    /\ lastArg' = 0
    /\ elapsedAtPause' = SincePause
    /\ UNCHANGED <<sm, visible, calls, unit>>

\* args: <<preset, isochronicEnabled, ambientSound override, voiceEnabled>>;
\* a call made while another start() is in flight is not counted
Start(args, limit) ==
  \E a \in args :
    /\ sm.starting \/ calls < limit
    /\ calls' = IF sm.starting THEN calls ELSE calls + 1
    /\ sm' = start(Fresh(sm), a[1], 70, a[2], a[3], 30, a[4])
    /\ lastOp' = IF sm.starting THEN "startRejected" ELSE "start"
    /\ lastArg' = 0
    /\ elapsedAtPause' = IF sm.starting THEN SincePause ELSE NoPause
    /\ UNCHANGED <<now, visible, unit>>

Continue ==
  \E i \in 1 .. Len(sm.pending), ok \in BOOLEAN :
    LET c == sm.pending[i]
    IN  /\ ok \/ c.k \in {"ambient.fetch", "switch.fetch"}
        /\ sm' = continue([Fresh(sm) EXCEPT !.pending = RemoveAt(@, i)], c, ok, now, visible)
        /\ lastOp' = IF ok THEN "other"
                     ELSE IF c.owner = "start" THEN "startFetchFailed"
                     ELSE "ambientFetchFailed"
        /\ lastArg' = 0
        /\ elapsedAtPause' = NoPause
    /\ UNCHANGED <<now, visible, calls, unit>>

Pause ==
  /\ sm' = pause(Fresh(sm), now)
  /\ lastOp' = IF sm.pausedAt > 0 \/ sm.phase \in {"idle", "complete"} THEN "other" ELSE "pause"
  /\ lastArg' = 0
  /\ elapsedAtPause' = IF sm.pausedAt > 0 \/ sm.phase \in {"idle", "complete"} THEN SincePause
                       ELSE ClockElapsed(sm, now)
  /\ UNCHANGED <<now, visible, calls, unit>>

Resume ==
  /\ sm' = resume(Fresh(sm), now, visible)
  /\ lastOp' = IF sm.pausedAt = 0 THEN "other" ELSE "resume"
  /\ lastArg' = 0
  /\ UNCHANGED <<now, visible, elapsedAtPause, calls, unit>>

\* offsets: seek targets relative to the duration, besides 90 s
Seek(offsets) ==
  \E targetTime \in {90000}
                    \cup {Presets[IF sm.preset = NoPreset THEN 1 ELSE sm.preset].duration + o :
                            o \in offsets} :
    /\ sm' = seek(Fresh(sm), now, targetTime)
    /\ lastOp' = IF sm.preset = NoPreset THEN "other" ELSE "seek"
    /\ lastArg' = targetTime
    /\ elapsedAtPause' = IF sm.preset = NoPreset THEN SincePause ELSE NoPause
    /\ UNCHANGED <<now, visible, calls, unit>>

Stop ==
  \E nodeFault \in BOOLEAN :
    /\ sm' = stop(Fresh(sm), nodeFault)
    /\ lastOp' = "stop"
    /\ lastArg' = 0
    /\ elapsedAtPause' = NoPause
    /\ UNCHANGED <<now, visible, calls, unit>>

SetVolume ==
  \E v \in {30} :
    /\ sm' = setVolume(Fresh(sm), v)
    /\ lastOp' = "other"
    /\ lastArg' = 0
    /\ elapsedAtPause' = SincePause
    /\ UNCHANGED <<now, visible, calls, unit>>

SetAmbientVolume ==
  \E v \in {30} :
    /\ sm' = setAmbientVolume(Fresh(sm), v)
    /\ lastOp' = "other"
    /\ lastArg' = 0
    /\ elapsedAtPause' = SincePause
    /\ UNCHANGED <<now, visible, calls, unit>>

ToggleIsochronic ==
  /\ sm' = toggleIsochronic(Fresh(sm))
  /\ lastOp' = "other"
  /\ lastArg' = 0
  /\ elapsedAtPause' = SincePause
  /\ UNCHANGED <<now, visible, calls, unit>>

SetAmbientSound(limit) ==
  \E sound \in {"ocean", "none"} :
    /\ calls < limit
    /\ calls' = calls + 1
    /\ sm' = setAmbientSound(Fresh(sm), sound, now, visible)
    /\ lastOp' = "other"
    /\ lastArg' = 0
    /\ elapsedAtPause' = SincePause
    /\ UNCHANGED <<now, visible, unit>>

VisibilityChange ==
  /\ visible' = ~visible
  /\ sm' = IF sm.visListener THEN handleVisibilityChange(Fresh(sm), ~visible) ELSE Fresh(sm)
  /\ lastOp' = "other"
  /\ lastArg' = 0
  /\ elapsedAtPause' = SincePause
  /\ UNCHANGED <<now, calls, unit>>

\* the browser runs the pending animation-frame callback (never while hidden)
AnimationFrame(faults) ==
  \E fault \in faults :
    /\ visible
    /\ sm.rafPending > 0
    /\ sm' = tick([Fresh(sm) EXCEPT !.rafPending = @ - 1,
                                    !.rafLive = IF sm.rafPending = 1 THEN FALSE ELSE @],
                  now, visible, fault)
    /\ lastOp' = "tick"
    /\ lastArg' = 0
    /\ elapsedAtPause' = SincePause
    /\ UNCHANGED <<now, visible, calls, unit>>

\* the 1 Hz fallback interval fires
IntervalTick(faults) ==
  \E fault \in faults :
    /\ sm.fallbackInterval
    /\ sm' = tick(Fresh(sm), now, visible, fault)
    /\ lastOp' = "tick"
    /\ lastArg' = 0
    /\ elapsedAtPause' = SincePause
    /\ UNCHANGED <<now, visible, calls, unit>>

\* The session's clock under pause, resume and seek, the volume controls
\* being used while paused
ClockArgs == { <<1, TRUE, "undefined", TRUE>>, <<3, FALSE, "undefined", TRUE>> }

NextClock ==
  \/ Advance({30000, 90000}, 5000 + MaxClock * 30000, TRUE)
  \/ Start(ClockArgs, MaxSessions) \/ Continue \/ Pause \/ Resume \/ Seek({0 - 50})
  \/ (sm.pausedAt > 0 /\ SetVolume)
  \/ (sm.pausedAt > 0 /\ SetAmbientVolume)
  \/ (sm.pausedAt > 0 /\ ToggleIsochronic)

SpecClock == InitSession /\ [][NextClock]_vars

\* The phases and the tick loop of a session that is played, sought and stopped
SessionArgs == { <<1, FALSE, "none", TRUE>>, <<2, FALSE, "none", TRUE>>,
                 <<3, FALSE, "undefined", TRUE>> }

NextSession ==
  \/ Advance({30000, 90000}, 5000 + MaxClock * 30000, TRUE)
  \/ Start(SessionArgs, MaxSessions) \/ Continue \/ Pause \/ Resume \/ Seek({0 - 5000 - 120000, 0 - 50, 5000}) \/ Stop
  \/ VisibilityChange \/ AnimationFrame(Faults) \/ IntervalTick(Faults)

Spec == InitSession /\ [][NextSession]_vars

\* A session that is only played: no operation but start() and the ticks
NextTicks ==
  \/ Advance({30000, 90000}, 5000 + MaxTickClock * 30000, TRUE)
  \/ Start(SessionArgs, MaxSessions) \/ Continue
  \/ VisibilityChange \/ AnimationFrame(Faults) \/ IntervalTick(Faults)

SpecTicks == InitSession /\ [][NextTicks]_vars

\* The phase of sessions that are played and sought, over envelopes of
\* two, three and four keyframes
PhaseArgs == { <<1, FALSE, "none", TRUE>>, <<2, FALSE, "none", TRUE>>,
               <<4, FALSE, "none", TRUE>> }

NextPhases ==
  \/ Advance({30000, 90000}, 5000 + MaxClock * 30000, TRUE)
  \/ Start(PhaseArgs, MaxSessions) \/ Continue
  \/ Seek({0 - 60000, 0 - 18000, 0 - 15000})
  \/ VisibilityChange \/ AnimationFrame(Faults) \/ IntervalTick(Faults)

SpecPhases == InitSession /\ [][NextPhases]_vars

\* Sessions over an empty and over a single-keyframe envelope
DegenerateArgs == { <<5, FALSE, "none", TRUE>>, <<6, FALSE, "none", TRUE>> }

NextDegenerate ==
  \/ Advance({10000, 20000}, 5000 + MaxClock * 20000, TRUE)
  \/ Start(DegenerateArgs, MaxCalls) \/ Continue
  \/ Seek({0 - 70000, 0 - 30000, 0 - 10000, 5000})
  \/ VisibilityChange \/ AnimationFrame(Faults) \/ IntervalTick(Faults)

SpecDegenerate == InitSession /\ [][NextDegenerate]_vars

\* Sessions started without the isochronic layer, which is toggled at any
\* moment: before start(), during it, while playing, paused, complete, stopped
ToggleArgs == { <<1, FALSE, "none", TRUE>>, <<1, FALSE, "ocean", TRUE>>,
                <<2, FALSE, "none", TRUE>> }

NextToggle ==
  \/ Advance({90000}, 5000 + MaxClock * 30000, FALSE)
  \/ Start(ToggleArgs, MaxSessions) \/ Continue \/ Pause \/ Resume \/ Stop
  \/ ToggleIsochronic
  \/ AnimationFrame({"none"}) \/ IntervalTick({"none"})

SpecToggle == InitSession /\ [][NextToggle]_vars

\* The asynchronous calls of the life cycle, with the ambient layer
AsyncArgs == { <<2, FALSE, "undefined", TRUE>>, <<3, FALSE, "ocean", TRUE>> }

NextAsync ==
  \/ Advance({90000}, 5000 + MaxAsyncClock * 90000, FALSE)
  \/ Start(AsyncArgs, MaxCalls) \/ Continue \/ Pause \/ Resume \/ Stop
  \/ SetAmbientSound(MaxCalls)
  \/ AnimationFrame({"none"}) \/ IntervalTick({"none"})

SpecAsync == InitSession /\ [][NextAsync]_vars

------------------------------------------------------------------------------
(* Component specifications: one component driven directly, the manager    *)
(* left as constructed.                                                    *)

InitRest ==
  /\ sm = InitManager
  /\ now = 0
  /\ visible = TRUE
  /\ lastArg = 0
  /\ elapsedAtPause = NoPause
  /\ calls = 0

\* interpolateFrequency on envelopes of 2 .. MaxEnvLen keyframes with
\* strictly increasing times
EnvTimes == {0, 30000, 60000, 120000}
EnvFreqs == {4, 8}
SampleTimes == {0 - 10000, 0, 15000, 30000, 45000, 60000, 90000, 120000, 200000}

Envelopes ==
  { e \in UNION { [1 .. n -> [time : EnvTimes, beatFreq : EnvFreqs]] : n \in 2 .. MaxEnvLen } :
      \A i \in 1 .. Len(e) - 1 : e[i].time < e[i + 1].time }

InitInterp ==
  /\ InitRest
  /\ lastOp = "init"
  /\ \E e \in Envelopes : unit = [envelope |-> e, time |-> 0, freq |-> Rat(0, 1)]

Interpolate ==
  \E t \in SampleTimes :
    /\ unit' = [unit EXCEPT !.time = t, !.freq = interpolateEnvelope(unit.envelope, t)]
    /\ lastOp' = "interpolate"
    /\ UNCHANGED <<sm, now, visible, lastArg, elapsedAtPause, calls>>

SpecInterp == InitInterp /\ [][Interpolate]_vars

\* AmbientEngine.fetchBuffer called for one sound id after another, or for
\* two at once: inflight are the calls waiting for fetch and decode, loaded
\* the ids whose call returned a buffer, in the order of their return, and
\* resident the ids whose buffer the cache holds, in the order in which they
\* were put there
SoundIds == {"rain", "ocean", "forest", "fire", "wind"}

InitCache ==
  /\ InitRest
  /\ lastOp = "init"
  /\ unit = [ambient |-> AmbientIdle, inflight |-> << >>, loaded |-> << >>,
             overlapped |-> FALSE, resident |-> << >>]

\* a Map keeps its keys in the order of their first set()
PutLast(resident, sound) ==
  IF \E i \in 1 .. Len(resident) : resident[i] = sound THEN resident
  ELSE Append(resident, sound)

StillResident(resident, cache) == SelectSeq(resident, LAMBDA k : k \in cache)

\* fetchBuffer up to the cache check: a hit returns the cached buffer
FetchBuffer ==
  \E sound \in SoundIds :
    /\ calls < MaxLoads
    /\ Len(unit.inflight) < MaxFetches
    /\ calls' = calls + 1
    /\ unit' = IF sound \in unit.ambient.bufferCache
                 THEN [unit EXCEPT !.loaded = Append(@, sound)]
                 ELSE [unit EXCEPT !.inflight = Append(@, sound),
                                   !.overlapped = @ \/ unit.inflight # << >>]
    /\ lastOp' = "fetch"
    /\ UNCHANGED <<sm, now, visible, lastArg, elapsedAtPause>>

\* fetch and decode settle: with a buffer (ok), which is cached, or without
FetchSettles ==
  \E i \in 1 .. Len(unit.inflight), ok \in BOOLEAN :
    LET sound == unit.inflight[i]
    IN  /\ unit' = IF ok
                     THEN [unit EXCEPT !.ambient = CacheInsert(@, sound),
                                       !.inflight = RemoveAt(@, i),
                                       !.loaded = Append(@, sound),
                                       !.resident = StillResident(
                                                      PutLast(@, sound),
                                                      CacheInsert(unit.ambient, sound).bufferCache)]
                     ELSE [unit EXCEPT !.inflight = RemoveAt(@, i)]
        /\ lastOp' = IF ok THEN "loaded" ELSE "failed"
        /\ UNCHANGED <<sm, now, visible, lastArg, elapsedAtPause, calls>>

NextCache == FetchBuffer \/ FetchSettles

SpecCache == InitCache /\ [][NextCache]_vars

\* VoiceCueEngine initialised with a cue list and then ticked and sought:
\* sought is the time of the last seek, played the cues (by index) that
\* tick has dispatched since, ticked the elapsed time of the last tick since
\* and ordered whether the ticks since came with non-decreasing elapsed
\* times, none before the time sought
CueTimes == {10000, 20000, 30000}
TickTimes == {5000, 15000, 25000, 35000}
SeekTimes == {0, 10000, 15000, 20000, 30000, 40000}
NoSeek == 0 - 1

CueLists ==
  UNION { [1 .. n -> [time : CueTimes, chime : BOOLEAN, chimeOnly : {FALSE}]] :
            n \in 0 .. MaxCues }

InitCues ==
  /\ InitRest
  /\ lastOp = "init"
  /\ \E cues \in CueLists, available \in BOOLEAN, enabled \in BOOLEAN :
       unit = [v |-> VoiceCueEngine_init([VoiceIdle EXCEPT !.available = available],
                                         cues, enabled),
               sought |-> NoSeek, played |-> << >>,
               ticked |-> NoSeek, ordered |-> TRUE]

CueTick ==
  \E elapsed \in TickTimes :
    LET after == VoiceCueEngine_tick(unit.v, elapsed).v
    IN  /\ unit' = [unit EXCEPT !.v = after,
                                !.played = @ \o [k \in 1 .. after.nextCueIndex - unit.v.nextCueIndex
                                                   |-> unit.v.nextCueIndex + k - 1],
                                !.ticked = elapsed,
                                !.ordered = @ /\ elapsed >= unit.ticked
                                              /\ elapsed >= unit.sought]
        /\ lastOp' = "cue.tick"
        /\ UNCHANGED <<sm, now, visible, lastArg, elapsedAtPause, calls>>

CueSeek ==
  \E time \in SeekTimes :
    /\ unit' = [unit EXCEPT !.v = VoiceCueEngine_seek(@, time),
                            !.sought = time, !.played = << >>,
                            !.ticked = NoSeek, !.ordered = TRUE]
    /\ lastOp' = "cue.seek"
    /\ UNCHANGED <<sm, now, visible, lastArg, elapsedAtPause, calls>>

NextCues == CueTick \/ CueSeek

SpecCues == InitCues /\ [][NextCues]_vars

\* The pulse scheduler of IsochronicEngine at a constant beat frequency: the
\* engine is started at ctxTime = started and the 900 ms interval runs
\* schedulePulses: on time, throttled to one run a second, or 1.1 s after
\* the run before
PulseFreqs == {1, 2, 4, 5, 8, 10, 20, 40, 50}
PulseStarts == {0, 3500, 12345}
SchedulerDelays == {SchedulerPeriod, 10000, scheduleAhead}

InitPulses ==
  /\ InitRest
  /\ lastOp = "init"
  /\ \E beat \in PulseFreqs, t \in PulseStarts :
       unit = [pulse |-> startPulses(beat, t), started |-> t, ctxTime |-> t]

\* the interval's callback, d after the run before it
SchedulerRunAfter(delays, limit) ==
  \E d \in delays :
    /\ calls < limit
    /\ calls' = calls + 1
    /\ unit' = [unit EXCEPT !.ctxTime = @ + d,
                            !.pulse = schedulePulses(@, unit.ctxTime + d)]
    /\ lastOp' = "schedule"
    /\ UNCHANGED <<sm, now, visible, lastArg, elapsedAtPause>>

SchedulerRun == SchedulerRunAfter(SchedulerDelays, MaxSchedulerRuns)

\* The scheduler at any tempo: an engine is constructed, started at a beat
\* frequency that start() stores as it is, and setBeatFrequency changes the
\* frequency between the runs of the interval
NoPulses == [running |-> FALSE, beat |-> 10, lastScheduledTime |-> 0, events |-> {}]

setPulseFrequency(e, freq) == [e EXCEPT !.beat = Max(freq, 1)]

TempoFreqs == {2, 125, 200}

InitTempo ==
  /\ InitRest
  /\ lastOp = "init"
  /\ \E t \in PulseStarts : unit = [pulse |-> NoPulses, started |-> t, ctxTime |-> t]

TempoStart ==
  \E beat \in TempoFreqs :
    /\ ~unit.pulse.running
    /\ unit' = [unit EXCEPT !.pulse = startPulses(beat, unit.ctxTime)]
    /\ lastOp' = "start"
    /\ UNCHANGED <<sm, now, visible, lastArg, elapsedAtPause, calls>>

TempoSet ==
  \E freq \in TempoFreqs \cup {0} :
    /\ unit' = [unit EXCEPT !.pulse = setPulseFrequency(@, freq)]
    /\ lastOp' = "setBeat"
    /\ UNCHANGED <<sm, now, visible, lastArg, elapsedAtPause, calls>>

TempoRun == unit.pulse.running /\ SchedulerRunAfter({SchedulerPeriod}, MaxTempoRuns)

SpecTempo == InitTempo /\ [][TempoStart \/ TempoSet \/ TempoRun]_vars

SpecPulses == InitPulses /\ [][SchedulerRun]_vars

\* The scheduler of a context that is suspended now and then: the runs come
\* on time, 1.15 s, 1.25 s or 3 s after the run before
SuspendDelays == {SchedulerPeriod, 11500, 12500, 30000}

SuspendedRun == SchedulerRunAfter(SuspendDelays, MaxSuspendRuns)

SpecSuspend == InitPulses /\ [][SuspendedRun]_vars

------------------------------------------------------------------------------
(* The oscillator pairs of the binaural engine on their own.  Frequencies  *)
(* in Hz; right is the value the right oscillator's frequency is set or    *)
(* ramped to, automation the kind of the last change.                      *)

\* fixedBeatFreq 0: the layer names none
Layer(carrierFreq, gainDb, fixedBeatFreq) ==
  [carrierFreq |-> carrierFreq, gainDb |-> gainDb, fixedBeatFreq |-> fixedBeatFreq]

\* the carriers of the master track, and a single carrier
CarrierSets ==
  { << Layer(200, 0, 0), Layer(100, 0 - 4, 0), Layer(400, 0 - 60, 40) >>,
    << Layer(200, 0, 0) >> }

createPair(layer, beatFreq) ==
  [carrierFreq |-> layer.carrierFreq, right |-> layer.carrierFreq + beatFreq,
   automation |-> "value"]

\* startWithContext as far as the pairs go
startPairs(carriers, beatFreq) ==
  [isRunning |-> TRUE, currentBeatFreq |-> beatFreq,
   pairs |-> [i \in DOMAIN carriers |-> createPair(carriers[i], beatFreq)]]

\* rampBeatFrequency with every pair
rampPairs(e, newBeatFreq) ==
  IF ~e.isRunning THEN e
  ELSE [e EXCEPT !.currentBeatFreq = newBeatFreq,
                 !.pairs = [i \in DOMAIN e.pairs |->
                   [e.pairs[i] EXCEPT !.right = e.pairs[i].carrierFreq + newBeatFreq,
                                !.automation =
                                  IF newBeatFreq - e.currentBeatFreq < 1
                                       /\ e.currentBeatFreq - newBeatFreq < 1
                                    THEN "linear" ELSE "exponential"]]]

\* setBeatFrequency with every pair
setPairs(e, beatFreq) ==
  IF ~e.isRunning THEN e
  ELSE [e EXCEPT !.currentBeatFreq = beatFreq,
                 !.pairs = [i \in DOMAIN e.pairs |->
                   [e.pairs[i] EXCEPT !.right = e.pairs[i].carrierFreq + beatFreq,
                                !.automation = "value"]]]

BeatFreqs == {1, 2, 4, 6, 8, 10, 40}

InitCarriers ==
  /\ InitRest
  /\ lastOp = "init"
  /\ \E carriers \in CarrierSets, beatFreq \in BeatFreqs :
       unit = [carriers |-> carriers, engine |-> startPairs(carriers, beatFreq)]

RampBeat ==
  \E f \in BeatFreqs :
    /\ calls < MaxBeatChanges
    /\ calls' = calls + 1
    /\ unit' = [unit EXCEPT !.engine = rampPairs(@, f)]
    /\ lastOp' = "ramp"
    /\ UNCHANGED <<sm, now, visible, lastArg, elapsedAtPause>>

SetBeat ==
  \E f \in BeatFreqs :
    /\ calls < MaxBeatChanges
    /\ calls' = calls + 1
    /\ unit' = [unit EXCEPT !.engine = setPairs(@, f)]
    /\ lastOp' = "set"
    /\ UNCHANGED <<sm, now, visible, lastArg, elapsedAtPause>>

SpecCarriers == InitCarriers /\ [][RampBeat \/ SetBeat]_vars

------------------------------------------------------------------------------
(* The narration engine on its own: a script of three spoken cues and a    *)
(* chime, the manifest missing, empty, one file short or complete.         *)

NarrationCues ==
  << [time |-> 0, chimeOnly |-> FALSE, text |-> TRUE],
     [time |-> 30000, chimeOnly |-> TRUE, text |-> FALSE],
     [time |-> 60000, chimeOnly |-> FALSE, text |-> TRUE],
     [time |-> 90000, chimeOnly |-> FALSE, text |-> TRUE] >>

NoManifest == 0 - 1
Manifests == {NoManifest, 0, 2, 3}
NarrationTimes == {0, 30000, 60000, 90000}

\* observers: at[i] the manifest as it stood when cue i was dispatched,
\* fetched[i] how the clip that cue i waited for came out, decoded the clips
\* that have been fetched and decoded
InitNarration ==
  /\ InitRest
  /\ lastOp = "init"
  /\ \E files \in Manifests, enabled \in BOOLEAN :
       unit = [v |-> ClipCueEngine_init(NarrationCues, enabled), files |-> files,
               elapsed |-> 0, decoded |-> {},
               at |-> [i \in 1 .. Len(NarrationCues) |-> "none"],
               fetched |-> [i \in 1 .. Len(NarrationCues) |-> "none"]]

ManifestNow ==
  IF unit.v.loading THEN "loading"
  ELSE IF unit.files = NoManifest THEN "missing"
  ELSE IF unit.files = 0 THEN "empty"
  ELSE "present"

ClipNow(i) ==
  IF ManifestNow # "present" THEN "none"
  ELSE IF getSpokenIndex(NarrationCues, i) >= unit.files THEN "failed"
  ELSE IF i \in unit.decoded THEN "ok"
  ELSE "none"

NarrationTick ==
  \E elapsed \in NarrationTimes :
    LET after == playReady(ClipCueEngine_tick(unit.v, elapsed))
        due == {i \in unit.v.nextCueIndex + 1 .. after.nextCueIndex :
                  unit.v.ctx /\ unit.v.enabled /\ NarrationCues[i].text}
    IN  /\ elapsed >= unit.elapsed
        /\ unit' = [unit EXCEPT !.v = after, !.elapsed = elapsed,
                                !.at = [i \in DOMAIN @ |-> IF i \in due THEN ManifestNow ELSE @[i]],
                                !.fetched = [i \in DOMAIN @ |-> IF i \in due THEN ClipNow(i) ELSE @[i]]]
        /\ lastOp' = "cue.tick"
        /\ UNCHANGED <<sm, now, visible, lastArg, elapsedAtPause, calls>>

ManifestSettles ==
  /\ unit.v.loading
  /\ unit' = [unit EXCEPT !.v = loadManifest(@, unit.files # NoManifest, Max(unit.files, 0))]
  /\ lastOp' = "manifest"
  /\ UNCHANGED <<sm, now, visible, lastArg, elapsedAtPause, calls>>

ClipSettles ==
  \E i \in unit.v.inflight, ok \in BOOLEAN :
    /\ unit' = [unit EXCEPT !.v = clipSettled(@, i, ok),
                            !.decoded = IF ok /\ unit.v.ctx THEN @ \cup {i} ELSE @,
                            !.fetched[i] = IF i \notin unit.v.awaiting THEN @
                                           ELSE IF ok THEN "ok" ELSE "failed"]
    /\ lastOp' = "clip"
    /\ UNCHANGED <<sm, now, visible, lastArg, elapsedAtPause, calls>>

NarrationStop ==
  /\ unit.v.ctx
  /\ unit' = [unit EXCEPT !.v = ClipCueEngine_stop(@)]
  /\ lastOp' = "cue.stop"
  /\ UNCHANGED <<sm, now, visible, lastArg, elapsedAtPause, calls>>

NextNarration == NarrationTick \/ ManifestSettles \/ ClipSettles \/ NarrationStop

SpecNarration == InitNarration /\ [][NextNarration]_vars

\* The ambient engine switching sounds on the clock, in ms: a session plays
\* "ocean"; switchSound is called, the engine or the session is stopped, and
\* time passes in steps of 100 ms up to the next timer or answer.  due[i] is
\* the time at which pending[i] goes on: a timer after its delay, a fetch
\* after a latency of the network's choosing.  fadedAt holds, for each
\* source that a switchSound has faded out, the time of that call, and torn
\* the source that the last timer has torn down; stopped and failed tell
\* that the engine has been stopped and that a fetch has failed, sourcesAtStop
\* how many sources had been created when the engine was stopped, requested
\* the sound of the last switchSound call.
SwitchLatencies == {300, 800, 1500}
Playing(cache, order) ==
  [InitManager EXCEPT
     !.ctx = 1, !.ctxState = <<"running">>, !.phase = "induction",
     !.ambientSound = "ocean", !.ambientVolume = 50,
     !.ambient = CreateSource([AmbientIdle EXCEPT !.ctx = 1, !.currentSound = "ocean",
                                                  !.bufferCache = cache,
                                                  !.cacheOrder = order], 1, 5000)]

InitSwitch ==
  /\ InitRest
  /\ lastOp = "init"
  /\ \E order \in {<<"ocean">>, <<"ocean", "rain">>} :
       unit = [s |-> Playing({order[i] : i \in 1 .. Len(order)}, order),
               clock |-> 0, due |-> << >>, fadedAt |-> {}, torn |-> 0,
               stopped |-> FALSE, failed |-> FALSE, sourcesAtStop |-> 0,
               requested |-> "ocean"]

\* setTimeout(..., 1100), setTimeout(r, 200), or the latency of the fetch
DueOf(c, clock, latency) ==
  IF c.k \in {"timer.oldSource", "timer.ambientStop"} THEN clock + 1100
  ELSE IF c.k = "switch.delay" THEN clock + 200
  ELSE clock + latency

\* the due times of the calls and timers that s has added to pending
Dues(due, s, clock, latency) ==
  due \o [k \in 1 .. Len(s.pending) - Len(due) |->
            DueOf(s.pending[Len(due) + k], clock, latency)]

SwitchSound ==
  \E sound \in {"ocean", "rain"} :
    LET after == switchSound(unit.s, sound, 5000)
    IN  /\ calls < MaxSwitches
        /\ calls' = calls + 1
        /\ unit' = [unit EXCEPT !.s = after,
                                !.requested = sound,
                                !.due = Dues(@, after, unit.clock, 0),
                                !.fadedAt = IF unit.s.ambient.ctx # 0
                                               /\ unit.s.ambient.source # 0
                                              THEN @ \cup {<<unit.s.ambient.source, unit.clock>>}
                                              ELSE @]
        /\ lastOp' = "switch"
        /\ UNCHANGED <<sm, now, visible, lastArg, elapsedAtPause>>

SwitchElapse ==
  /\ unit.clock < MaxSwitchTicks * 100
  /\ \A i \in 1 .. Len(unit.due) : unit.due[i] > unit.clock
  /\ unit' = [unit EXCEPT !.clock = @ + 100]
  /\ lastOp' = "elapse"
  /\ UNCHANGED <<sm, now, visible, lastArg, elapsedAtPause, calls>>

SwitchGoesOn ==
  \E i \in 1 .. Len(unit.due), ok \in BOOLEAN, latency \in SwitchLatencies :
    LET c == unit.s.pending[i]
        after == continue([unit.s EXCEPT !.pending = RemoveAt(@, i)], c, ok,
                          unit.clock, TRUE)
    IN  /\ unit.due[i] <= unit.clock
        /\ ok \/ c.k = "switch.fetch"
        /\ latency = 300 \/ Len(after.pending) = Len(unit.due)
        /\ unit' = [unit EXCEPT !.s = after,
                                !.due = Dues(RemoveAt(@, i), after, unit.clock, latency),
                                !.failed = @ \/ ~ok,
                                !.torn = IF c.k = "timer.oldSource" THEN c.node ELSE @]
        /\ lastOp' = IF c.k = "timer.oldSource" THEN "teardown" ELSE "goesOn"
        /\ UNCHANGED <<sm, now, visible, lastArg, elapsedAtPause, calls>>

AmbientStops ==
  /\ ~unit.stopped
  /\ unit' = [unit EXCEPT !.s.ambient = AmbientEngine_stop(@, FALSE).e, !.stopped = TRUE,
                          !.sourcesAtStop = Len(unit.s.ambient.nodes)]
  /\ lastOp' = "ambient.stop"
  /\ UNCHANGED <<sm, now, visible, lastArg, elapsedAtPause, calls>>

SessionStops ==
  /\ unit.s.ctx # 0
  /\ unit' = [unit EXCEPT !.s = stop(@, FALSE), !.stopped = TRUE,
                          !.sourcesAtStop = Len(unit.s.ambient.nodes)]
  /\ lastOp' = "session.stop"
  /\ UNCHANGED <<sm, now, visible, lastArg, elapsedAtPause, calls>>

NextSwitch == SwitchSound \/ SwitchElapse \/ SwitchGoesOn \/ AmbientStops \/ SessionStops

SpecSwitch == InitSwitch /\ [][NextSwitch]_vars

\* The manager's setAmbientSound on the clock, in ms: a session plays "ocean";
\* a sound or 'none' is selected, a new session is started, and time passes
\* as in SpecSwitch.  born[i] is the number of sources that had been created
\* when pending[i] was scheduled.
MaxSelects == 2
MaxSelectTicks == 14

InitSelect ==
  /\ InitRest
  /\ lastOp = "init"
  /\ unit = [s |-> Playing({"ocean", "rain"}, <<"ocean", "rain">>),
             clock |-> 0, due |-> << >>, born |-> << >>]

Borns(born, s, sources) ==
  born \o [k \in 1 .. Len(s.pending) - Len(born) |-> sources]

SelectSound ==
  \E sound \in {"none", "ocean", "rain"} :
    LET after == setAmbientSound(unit.s, sound, unit.clock, TRUE)
    IN  /\ calls < MaxSelects
        /\ calls' = calls + 1
        /\ unit' = [unit EXCEPT !.s = after,
                                !.due = Dues(@, after, unit.clock, 0),
                                !.born = Borns(@, after, Len(unit.s.ambient.nodes))]
        /\ lastOp' = "select"
        /\ UNCHANGED <<sm, now, visible, lastArg, elapsedAtPause>>

SelectRestart ==
  LET after == start(Fresh(unit.s), 3, 70, FALSE, "ocean", 30, TRUE)
  IN  /\ calls < MaxSelects
      /\ ~unit.s.starting
      /\ calls' = calls + 1
      /\ unit' = [unit EXCEPT !.s = after,
                              !.due = Dues(@, after, unit.clock, 0),
                              !.born = Borns(@, after, Len(unit.s.ambient.nodes))]
      /\ lastOp' = "start"
      /\ UNCHANGED <<sm, now, visible, lastArg, elapsedAtPause>>

SelectElapse ==
  /\ unit.clock < MaxSelectTicks * 100
  /\ \A i \in 1 .. Len(unit.due) : unit.due[i] > unit.clock
  /\ unit' = [unit EXCEPT !.clock = @ + 100]
  /\ lastOp' = "elapse"
  /\ UNCHANGED <<sm, now, visible, lastArg, elapsedAtPause, calls>>

SelectGoesOn ==
  \E i \in 1 .. Len(unit.due) :
    LET c == unit.s.pending[i]
        after == continue([unit.s EXCEPT !.pending = RemoveAt(@, i)], c, TRUE,
                          unit.clock, TRUE)
    IN  /\ unit.due[i] <= unit.clock
        /\ unit' = [unit EXCEPT !.s = after,
                                !.due = Dues(RemoveAt(@, i), after, unit.clock, 300),
                                !.born = Borns(RemoveAt(@, i), after,
                                               Len(unit.s.ambient.nodes))]
        /\ lastOp' = IF c.k = "timer.ambientStop" THEN "noneTimer" ELSE "goesOn"
        /\ lastArg' = unit.born[i]
        /\ UNCHANGED <<sm, now, visible, elapsedAtPause, calls>>

NextSelect == SelectSound \/ SelectRestart \/ SelectElapse \/ SelectGoesOn

SpecSelect == InitSelect /\ [][NextSelect]_vars

\* The useAudioEngine hook over its SessionManager, on the clock in ms.  hook
\* is the part of the hook's state that mirrors the manager; fadeTimer is the
\* time at which the timer of the hook's stop() fires (NoTimer: none is
\* pending), due[i] the time at which the manager's pending[i] goes on, and
\* restarted tells that a startSession called after the last stop() has
\* resolved.  The page stays visible.
NoTimer == 0 - 1
MaxHookCalls == 3
MaxHookClock == 2
HookLatency == 100
FadeDelay == 350

HookInitial == [isPlaying |-> FALSE, isPaused |-> FALSE, phase |-> "idle", elapsed |-> 0]

\* the onUpdate callback that startSession hands to manager.start
onUpdate(h, s) ==
  IF s.emitted
    THEN [h EXCEPT !.isPlaying = s.snapshot.phase # "complete", !.isPaused = FALSE,
                   !.phase = s.snapshot.phase, !.elapsed = s.snapshot.elapsed]
    ELSE h

\* the setState of startSession after `await manager.start(...)`
startResolved(h) ==
  [h EXCEPT !.isPlaying = TRUE, !.isPaused = FALSE, !.phase = "induction", !.elapsed = 0]

startSession(u, preset, t) ==
  LET s1 == start(Fresh(u.s), preset, 70, FALSE, "undefined", 30, TRUE)
  IN  [u EXCEPT !.s = s1,
                !.hook = IF u.s.starting THEN startResolved(@) ELSE @,
                !.restarted = @ \/ (u.s.starting /\ u.stopped)]

useAudioEngine_pause(u, t) ==
  LET s1 == pause(Fresh(u.s), t)
  IN  [u EXCEPT !.s = s1,
                !.hook = [onUpdate(@, s1) EXCEPT !.isPaused = TRUE, !.isPlaying = FALSE]]

useAudioEngine_resume(u, t) ==
  LET s1 == resume(Fresh(u.s), t, TRUE)
  IN  [u EXCEPT !.s = s1,
                !.hook = [onUpdate(@, s1) EXCEPT !.isPaused = FALSE, !.isPlaying = TRUE]]

useAudioEngine_seek(u, t, targetTime) ==
  LET s1 == seek(Fresh(u.s), t, targetTime)
  IN  [u EXCEPT !.s = s1,
                !.hook = [onUpdate(@, s1) EXCEPT !.elapsed = targetTime, !.phase = s1.phase]]

useAudioEngine_stop(u, t) ==
  [u EXCEPT !.s = fadeOut(Fresh(u.s)), !.fadeTimer = t + FadeDelay,
            !.hook = HookInitial, !.stopped = TRUE, !.restarted = FALSE]

\* the callback of the timer of stop()
fadeTimerFires(u) ==
  [u EXCEPT !.s = stop(Fresh(u.s), FALSE), !.fadeTimer = NoTimer]

InitHook ==
  /\ InitRest
  /\ lastOp = "init"
  /\ unit = [s |-> InitManager, hook |-> HookInitial, clock |-> 0, due |-> << >>,
             fadeTimer |-> NoTimer, stopped |-> FALSE, restarted |-> FALSE]

HookCall(op, after) ==
  /\ calls < MaxHookCalls
  /\ calls' = calls + 1
  /\ unit' = [after EXCEPT !.due = Dues(@, after.s, unit.clock, HookLatency)]
  /\ lastOp' = op
  /\ UNCHANGED <<sm, now, visible, lastArg, elapsedAtPause>>

HookStart == \E preset \in {2, 3} : HookCall("hook.start", startSession(unit, preset, unit.clock))

HookPause == HookCall("hook.pause", useAudioEngine_pause(unit, unit.clock))

HookResume == HookCall("hook.resume", useAudioEngine_resume(unit, unit.clock))

HookSeek ==
  \E targetTime \in {30000, 150000} :
    HookCall("hook.seek", useAudioEngine_seek(unit, unit.clock, targetTime))

HookStop == HookCall("hook.stop", useAudioEngine_stop(unit, unit.clock))

\* a suspended call of the manager goes on; when it is the start() that
\* startSession awaits and it returns, startSession sets its state
HookGoesOn ==
  \E i \in 1 .. Len(unit.due) :
    LET c == unit.s.pending[i]
        s1 == continue([Fresh(unit.s) EXCEPT !.pending = RemoveAt(@, i)], c, TRUE,
                       unit.clock, TRUE)
        returned == c.owner = "start" /\ Len(s1.pending) < Len(unit.s.pending) /\ ~s1.threw
    IN  /\ unit.due[i] <= unit.clock
        /\ unit' = [unit EXCEPT !.s = s1,
                                !.hook = IF returned THEN startResolved(onUpdate(@, s1))
                                         ELSE onUpdate(@, s1),
                                !.restarted = @ \/ (returned /\ unit.stopped),
                                !.due = Dues(RemoveAt(@, i), s1, unit.clock, HookLatency)]
        /\ lastOp' = "hook.goesOn"
        /\ UNCHANGED <<sm, now, visible, lastArg, elapsedAtPause, calls>>

HookTimer ==
  /\ unit.fadeTimer # NoTimer
  /\ unit.fadeTimer <= unit.clock
  /\ unit' = fadeTimerFires(unit)
  /\ lastOp' = "hook.timer"
  /\ UNCHANGED <<sm, now, visible, lastArg, elapsedAtPause, calls>>

\* an animation frame runs the manager's tick
HookTick ==
  /\ unit.s.rafPending > 0
  /\ LET s1 == tick([Fresh(unit.s) EXCEPT !.rafPending = @ - 1,
                                          !.rafLive = IF unit.s.rafPending = 1 THEN FALSE ELSE @],
                    unit.clock, TRUE, "none")
     IN  unit' = [unit EXCEPT !.s = s1, !.hook = onUpdate(@, s1)]
  /\ lastOp' = "hook.tick"
  /\ UNCHANGED <<sm, now, visible, lastArg, elapsedAtPause, calls>>

\* time passes: up to the next timer or answer, or by a minute
HookWaits(u) ==
  { u.due[i] : i \in 1 .. Len(u.due) } \cup (IF u.fadeTimer = NoTimer THEN {} ELSE {u.fadeTimer})

HookElapse ==
  /\ \A d \in HookWaits(unit) : d > unit.clock
  /\ IF HookWaits(unit) = {}
       THEN /\ unit.clock + 60000 <= MaxHookClock * 60000 + 1000
            /\ unit' = [unit EXCEPT !.clock = @ + 60000]
       ELSE unit' = [unit EXCEPT !.clock = CHOOSE d \in HookWaits(unit) :
                                             \A e \in HookWaits(unit) : d <= e]
  /\ lastOp' = "hook.elapse"
  /\ UNCHANGED <<sm, now, visible, lastArg, elapsedAtPause, calls>>

NextHook ==
  \/ HookStart \/ HookPause \/ HookResume \/ HookSeek \/ HookStop
  \/ HookGoesOn \/ HookTimer \/ HookTick \/ HookElapse

SpecHook == InitHook /\ [][NextHook]_vars

\* The voice generator and the engine on one script.  The generator writes
\* one file per cue of the script that has a text and is not chimeOnly, in
\* the order of the script, and lists the files in the manifest; the engine
\* sorts the cues by time and looks a cue's file up by getSpokenIndex.  at is
\* the place in the script of each cue.
ScriptTimes == {0, 10000, 20000}

Scripts ==
  UNION { { [k \in 1 .. n |-> [time |-> c[k].time, chimeOnly |-> c[k].chimeOnly,
                                text |-> c[k].text, at |-> k]] :
            c \in [1 .. n -> [time : ScriptTimes, chimeOnly : BOOLEAN, text : BOOLEAN]] } :
          n \in 1 .. MaxCues }

\* spokenCues = script.voiceCues.filter(c => !c.chimeOnly && c.text); the
\* file of the cue at place k is named after its index in spokenCues
generatedFile(script, k) ==
  Cardinality({j \in 1 .. k - 1 : ~script[j].chimeOnly /\ script[j].text})

InitVoiceFiles ==
  /\ InitRest
  /\ lastOp = "init"
  /\ \E script \in Scripts :
       unit = [script |-> script, v |-> ClipCueEngine_init(SortCues(script), TRUE),
               cue |-> 0, spokenIndex |-> 0, file |-> 0]

\* playAudio(i) of a spoken cue asks fetchBuffer for manifest[getSpokenIndex(i)]
LookUpClip ==
  \E i \in 1 .. Len(unit.v.cues) :
    /\ ~unit.v.cues[i].chimeOnly /\ unit.v.cues[i].text
    /\ unit' = [unit EXCEPT !.cue = i,
                            !.spokenIndex = getSpokenIndex(unit.v.cues, i),
                            !.file = generatedFile(unit.script, unit.v.cues[i].at)]
    /\ lastOp' = "lookup"
    /\ UNCHANGED <<sm, now, visible, lastArg, elapsedAtPause, calls>>

SpecVoiceFiles == InitVoiceFiles /\ [][LookUpClip]_vars

\* The same engine ticked, sought, paused and stopped while its clips are
\* fetched, played and ended.  withdrawn: the cues that a seek, a pause or a
\* stop has taken back, that is, every cue until tick dispatches it anew
PlaybackSeeks == {0, 60000}

InitPlayback ==
  /\ InitRest
  /\ lastOp = "init"
  /\ \E files \in {2, 3} :
       unit = [v |-> ClipCueEngine_init(NarrationCues, TRUE), files |-> files,
               elapsed |-> 0, withdrawn |-> {}]

PlaybackTick ==
  \E elapsed \in NarrationTimes :
    LET after == playReady(ClipCueEngine_tick(unit.v, elapsed))
    IN  /\ elapsed >= unit.elapsed
        /\ unit' = [unit EXCEPT !.v = after, !.elapsed = elapsed,
                                !.withdrawn = @ \ (unit.v.nextCueIndex + 1 .. after.nextCueIndex)]
        /\ lastOp' = "cue.tick"
        /\ UNCHANGED <<sm, now, visible, lastArg, elapsedAtPause, calls>>

PlaybackManifest ==
  /\ unit.v.loading
  /\ unit' = [unit EXCEPT !.v = loadManifest(@, TRUE, unit.files)]
  /\ lastOp' = "manifest"
  /\ UNCHANGED <<sm, now, visible, lastArg, elapsedAtPause, calls>>

PlaybackClip ==
  \E i \in unit.v.inflight, ok \in BOOLEAN :
    /\ unit' = [unit EXCEPT !.v = clipSettled(@, i, ok)]
    /\ lastOp' = "clip"
    /\ UNCHANGED <<sm, now, visible, lastArg, elapsedAtPause, calls>>

PlaybackEnds ==
  \E i \in unit.v.playing :
    /\ unit' = [unit EXCEPT !.v = clipEnded(@, i)]
    /\ lastOp' = "ended"
    /\ UNCHANGED <<sm, now, visible, lastArg, elapsedAtPause, calls>>

PlaybackSeek ==
  \E time \in PlaybackSeeks :
    /\ unit' = [unit EXCEPT !.v = playReady(ClipCueEngine_seek(@, time)),
                            !.elapsed = time,
                            !.withdrawn = 1 .. Len(NarrationCues)]
    /\ lastOp' = "cue.seek"
    /\ UNCHANGED <<sm, now, visible, lastArg, elapsedAtPause, calls>>

PlaybackPause ==
  /\ unit' = [unit EXCEPT !.v = ClipCueEngine_pause(@),
                          !.withdrawn = 1 .. Len(NarrationCues)]
  /\ lastOp' = "cue.pause"
  /\ UNCHANGED <<sm, now, visible, lastArg, elapsedAtPause, calls>>

PlaybackStop ==
  /\ unit.v.ctx
  /\ unit' = [unit EXCEPT !.v = ClipCueEngine_stop(@),
                          !.withdrawn = 1 .. Len(NarrationCues)]
  /\ lastOp' = "cue.stop"
  /\ UNCHANGED <<sm, now, visible, lastArg, elapsedAtPause, calls>>

NextPlayback ==
  \/ PlaybackTick \/ PlaybackManifest \/ PlaybackClip \/ PlaybackEnds
  \/ PlaybackSeek \/ PlaybackPause \/ PlaybackStop

SpecPlayback == InitPlayback /\ [][NextPlayback]_vars

------------------------------------------------------------------------------
(* Properties of interpolateFrequency, under SpecInterp *)

\* the consecutive pairs of env that bracket t
Bracketing(env, t) ==
  { i \in 1 .. Len(env) - 1 : env[i].time <= t /\ t < env[i + 1].time }

\* C1: on every envelope of at least 2 keyframes with strictly increasing
\* times, interpolateFrequency(t) is the first keyframe's beatFreq for
\* t <= first.time, the last keyframe's for t >= last.time, and otherwise
\* prev.beatFreq + (next.beatFreq - prev.beatFreq) * (t - prev.time)
\* / (next.time - prev.time) for the one consecutive pair with
\* prev.time <= t < next.time; [{0,8},{60,8},{120,4}] gives 6 at 90 s,
\* 8 at 0 s and 4 at 200 s.
InterpolationContract ==
  lastOp = "interpolate" =>
    LET env == unit.envelope
        t == unit.time
        first == env[1]
        last == env[Len(env)]
    IN  /\ t <= first.time => unit.freq = <<first.beatFreq, 1>>
        /\ t >= last.time => unit.freq = <<last.beatFreq, 1>>
        /\ first.time < t /\ t < last.time =>
             /\ Cardinality(Bracketing(env, t)) = 1
             /\ \A i \in Bracketing(env, t) :
                  unit.freq[1] * (env[i + 1].time - env[i].time)
                    = unit.freq[2]
                        * (env[i].beatFreq * (env[i + 1].time - env[i].time)
                             + (env[i + 1].beatFreq - env[i].beatFreq) * (t - env[i].time))
        /\ env = << FP(0, 8), FP(60000, 8), FP(120000, 4) >> =>
             /\ t = 90000 => unit.freq = <<6, 1>>
             /\ t = 0 => unit.freq = <<8, 1>>
             /\ t = 200000 => unit.freq = <<4, 1>>

\* the example of C1 was computed: 6 Hz at 90 s, between two keyframes
InterpolatedBetweenKeyframes ==
  /\ lastOp = "interpolate"
  /\ unit.envelope = << FP(0, 8), FP(60000, 8), FP(120000, 4) >>
  /\ unit.time = 90000
  /\ unit.freq = <<6, 1>>

------------------------------------------------------------------------------
(* Properties of the session clock *)

Duration(s) == Presets[s.preset].duration

\* C2 as stated: for every t in [0, duration), the clock's elapsed time
\* right after seek(t) equals t.
SeekReachesTarget ==
  lastOp = "seek" /\ 0 <= lastArg /\ lastArg < Duration(sm) =>
    ClockElapsed(sm, now) = lastArg

\* C2, amended: right after seek(t) on an active session, running or paused,
\* with t in [0, duration), the clock's elapsed time equals t when
\* t <= duration - 0.1 s and duration - 0.1 s otherwise; startTime is
\* unchanged, and seek(t) again at the same instant leaves pauseOffset and
\* the elapsed time as they are.
SeekSetsClock ==
  [][lastOp' = "seek" /\ 0 <= lastArg' /\ lastArg' < Duration(sm') =>
       LET t == lastArg'
           again == seek(sm', now', t)
       IN  /\ ClockElapsed(sm', now')
                = (IF t <= Duration(sm') - 100 THEN t ELSE Duration(sm') - 100)
           /\ sm'.startTime = sm.startTime
           /\ again.pauseOffset = sm'.pauseOffset
           /\ ClockElapsed(again, now') = ClockElapsed(sm', now')]_vars

\* a paused session was sought to 90 s some time after it was paused
SoughtWhilePaused ==
  /\ lastOp = "seek"
  /\ lastArg = 90000
  /\ sm.pausedAt > 0
  /\ now > sm.pausedAt
  /\ ClockElapsed(sm, now) = 90000

------------------------------------------------------------------------------
(* Properties of the phases and of the tick loop *)

PhaseRank(phase) ==
  CASE phase = "induction" -> 1
    [] phase = "main" -> 2
    [] phase = "return" -> 3
    [] phase = "complete" -> 4
    [] OTHER -> 0

ReturnSession(s) == s.preset # NoPreset /\ Presets[s.preset].hasReturnPhase

\* C4 as stated: in a session with a return phase driven only by ticks, every
\* newly reported phase is the successor of the one reported before it
\* (induction first), so that none is skipped.
TicksReportEveryPhase ==
  [][lastOp' = "tick" /\ sm'.emitted /\ ReturnSession(sm)
       /\ sm'.reported # sm.reported =>
         PhaseRank(sm'.reported) = PhaseRank(sm.reported) + 1]_vars

\* C4, amended: in a session with a return phase driven only by ticks, the
\* phases reported to the callback never go back in the order induction,
\* main, return, complete: no phase is re-entered (a phase in which no
\* tick falls is skipped).
TicksNeverGoBack ==
  [][lastOp' = "tick" /\ sm'.emitted /\ ReturnSession(sm) =>
       /\ PhaseRank(sm'.reported) >= PhaseRank(sm.reported)
       /\ PhaseRank(sm'.reported) >= 1]_vars

\* a tick of the four-keyframe session reported the return phase
TickReportedReturn ==
  /\ lastOp = "tick"
  /\ sm.emitted
  /\ sm.preset = 1
  /\ sm.reported = "return"

TickSourceArmed(s) == s.fallbackInterval \/ (s.rafLive /\ s.rafPending > 0)

\* C30: in every reachable state at most one tick source is armed (a pending
\* animation-frame request or the 1 Hz interval, never both); while the
\* session is playing exactly one is armed, the animation frame when the
\* document is visible and the interval when it is hidden, and while the
\* manager is idle, paused or complete none is armed.
OneTickSourceWhilePlaying ==
  /\ sm.rafPending <= 1
  /\ ~(sm.fallbackInterval /\ sm.rafPending > 0)
  /\ isPlaying(sm) =>
       /\ visible => sm.rafPending = 1 /\ sm.rafLive /\ ~sm.fallbackInterval
       /\ ~visible => sm.fallbackInterval /\ sm.rafPending = 0
  /\ ~isPlaying(sm) => ~sm.fallbackInterval /\ sm.rafPending = 0

\* C5: once the phase is complete, pause, resume, seek, the volume
\* controls, visibility changes and ticks (every step but a fresh start()
\* and stop()) leave the phase complete and the tick loop stopped.
CompleteIsTerminal ==
  [][sm.phase = "complete" /\ lastOp' \notin {"start", "startRejected", "stop"} =>
       sm'.phase = "complete" /\ ~TickSourceArmed(sm')]_vars

------------------------------------------------------------------------------
(* Properties of the life cycle, under SpecAsync *)

\* C6: from every state (idle, start in flight, playing, paused, complete,
\* in the middle of a fade or of a cross-fade) stop() returns without
\* throwing and leaves phase idle, elapsed 0, pauseOffset 0, pausedAt 0, no
\* preset, no tick source armed and every engine not running; a second
\* stop() leaves that state as it is.
StopResets ==
  lastOp = "stop" =>
    /\ ~sm.threw
    /\ sm.phase = "idle" /\ sm.elapsed = 0
    /\ sm.pauseOffset = 0 /\ sm.pausedAt = 0
    /\ sm.preset = NoPreset
    /\ sm.animFrameId = 0 /\ sm.rafPending = 0 /\ ~sm.fallbackInterval
    /\ ~sm.engine.running /\ ~sm.noise.running /\ ~sm.isochronic.running
    /\ ~sm.isochronic.scheduler
    /\ sm.ambient.source = 0
    /\ ~sm.phasedNoise.running /\ ~sm.resonantTone.running
    /\ sm.voiceCues.cues = << >>
    /\ \A nodeFault \in BOOLEAN : stop(sm, nodeFault) = sm

\* stop() was called while a cross-fade to another ambient sound was under way
StoppedMidCrossfade ==
  /\ lastOp = "stop"
  /\ \E i \in DOMAIN sm.pending : sm.pending[i].k \in {"switch.delay", "switch.fetch"}
  /\ \E i \in DOMAIN sm.pending : sm.pending[i].k = "timer.oldSource"

OpenContexts(s) == {c \in DOMAIN s.ctxState : s.ctxState[c] # "closed"}

\* C7: a start() call made while another is in flight returns without
\* changing the manager or creating an AudioContext, and at most one
\* AudioContext created by the manager is open at any time.
StartIsNotReentrant ==
  [][/\ lastOp' = "startRejected" =>
          [sm' EXCEPT !.threw = FALSE, !.caught = FALSE, !.emitted = FALSE]
            = [sm EXCEPT !.threw = FALSE, !.caught = FALSE, !.emitted = FALSE]
     /\ Cardinality(OpenContexts(sm')) <= 1]_vars

\* a start() call was turned down while the second session's start was in flight
StartRejectedInFlight ==
  /\ lastOp = "startRejected"
  /\ sm.starting
  /\ Len(sm.ctxState) = 2
  /\ Cardinality(OpenContexts(sm)) = 1

------------------------------------------------------------------------------
(* Properties of the ambient buffer cache, under SpecCache *)

LastThree(seq) == {seq[i] : i \in Len(seq) - 2 .. Len(seq)}

\* the ids were loaded one after another and are all different
LoadedInTurn ==
  /\ ~unit.overlapped
  /\ unit.inflight = << >>
  /\ \A i, j \in 1 .. Len(unit.loaded) : i # j => unit.loaded[i] # unit.loaded[j]

\* C9: after N >= 3 different sound ids have been loaded one after another,
\* the cache holds exactly 3 buffers, those of the 3 ids requested last;
\* the cache never holds more than 3 buffers.
CacheHoldsLastThree ==
  /\ Cardinality(unit.ambient.bufferCache) <= 3
  /\ LoadedInTurn /\ Len(unit.loaded) >= 3 =>
       /\ Cardinality(unit.ambient.bufferCache) = 3
       /\ unit.ambient.bufferCache = LastThree(unit.loaded)

\* five different ids have been loaded one after another
FiveLoadedInTurn ==
  /\ LoadedInTurn
  /\ Len(unit.loaded) = 5
  /\ Cardinality(unit.ambient.bufferCache) = 3

\* C29: cache eviction follows insertion order only: a cache hit returns the
\* stored buffer without changing any entry's position, a failed fetch or
\* decode inserts nothing, and the entry evicted on overflow is always the
\* one inserted earliest among those resident.
EvictsEarliestInserted ==
  [][/\ lastOp' \in {"fetch", "failed"} => unit'.ambient = unit.ambient
     /\ lastOp' = "loaded" =>
          LET held == PutLast(unit.resident, unit'.loaded[Len(unit'.loaded)])
          IN  \A i \in 1 .. Len(held) :
                held[i] \notin unit'.ambient.bufferCache =>
                  /\ i < Len(held)
                  /\ \A j \in 1 .. i : held[j] \notin unit'.ambient.bufferCache]_vars

------------------------------------------------------------------------------
(* Properties of the cue cursor, under SpecCues *)

\* the smallest 0-based index whose cue time is >= t, the cue count if none
FirstAtOrAfter(cues, t) == Cardinality({i \in 1 .. Len(cues) : cues[i].time < t})

CuesConsumedInOrder ==
  (lastOp = "cue.tick" /\ unit.ordered) =>
    LET cues == unit.v.cues
        from == IF unit.sought = NoSeek THEN 0
                ELSE FirstAtOrAfter(cues, unit.sought)
        upTo == Cardinality({i \in 1 .. Len(cues) : cues[i].time <= unit.ticked})
    IN  /\ unit.v.nextCueIndex = Max(from, upTo)
        /\ unit.played = [k \in 1 .. Max(from, upTo) - from |-> from + k - 1]
        /\ \A j, k \in 1 .. Len(unit.played) :
             j < k => cues[unit.played[j] + 1].time <= cues[unit.played[k] + 1].time

------------------------------------------------------------------------------
(* Properties of the clips that play, under SpecPlayback *)

\* C25: after seek(), pause() or stop() of the narration sequencer returns,
\* no cue dispatched before that call starts or continues playing, even when
\* the fetch or decode of its clip was pending at the time of the call; and
\* two cues dispatched in one tick never play at the same time.
WithdrawnCuesStaySilent ==
  /\ unit.v.playing \cap unit.withdrawn = {}
  /\ Cardinality(unit.v.playing) <= 1

------------------------------------------------------------------------------
(* Properties of the clip looked up for a cue, under SpecVoiceFiles *)

\* C26: the clip played for a spoken cue is the file generated for that
\* cue: for every cue list, the engine's spoken-cue index (the number of
\* earlier cues, in time-sorted order, that are not chimeOnly) equals the
\* generator's file index (the position among the cues, in script order,
\* that have a text and are not chimeOnly).
ClipIsTheFileOfItsCue ==
  lastOp = "lookup" => unit.spokenIndex = unit.file

------------------------------------------------------------------------------
(* Properties of switchSound, under SpecSwitch *)

\* C27: in switchSound to a different sound while one is playing, the old
\* source is torn down only after its 1 s fade-out has finished (1.1 s after
\* the switch), and the new source is started before the old source is torn
\* down, whatever the latency of the fetch and decode of the new sound.
\* (Stated for the switches whose fetch succeeds, the engine not stopped.)
CrossfadeBeforeTeardown ==
  [][(lastOp' = "teardown" /\ ~unit'.stopped /\ ~unit'.failed) =>
       /\ \A f \in unit'.fadedAt : f[1] = unit'.torn => unit'.clock >= f[2] + 1000
       /\ Len(unit'.s.ambient.nodes) > unit'.torn]_vars

\* C28: if the session or the ambient engine is stopped while a switchSound
\* call is suspended (in its 0.2 s delay or in the fetch of the new sound),
\* the continuation of that call creates and starts no source and leaves the
\* ambient engine not running.
StoppedEngineStaysStopped ==
  unit.stopped =>
    /\ unit.s.ambient.source = 0
    /\ Len(unit.s.ambient.nodes) = unit.sourcesAtStop

------------------------------------------------------------------------------
(* Properties of the pulse scheduler, under SpecPulses *)

\* the pulse of one on/off cycle from t: 2 ms attack, hold, 2 ms release
\* ending at half the period
Pulse(t, period) ==
  { [time |-> t, kind |-> "set", value |-> 0],
    [time |-> t + 20, kind |-> "ramp", value |-> 1],
    [time |-> t + period \div 2 - 20, kind |-> "set", value |-> 1],
    [time |-> t + period \div 2, kind |-> "ramp", value |-> 0] }

\* the breakpoint that holds the gain at zero from the end of the cycle
Closing(t, period) == [time |-> t + period, kind |-> "set", value |-> 0]

Trapezoid(t, period) == Pulse(t, period) \cup {Closing(t, period)}

\* the complete cycles of the breakpoints that lie within [from, to]
CompleteCycles(events, from, to, period) ==
  { b \in events : /\ b.kind = "ramp" /\ b.value = 1
                   /\ b.time - 20 >= from /\ b.time - 20 + period <= to
                   /\ Pulse(b.time - 20, period) \subseteq events }

WindowStarts == {0, 1234, 9000, 17777}

CursorAheadAtEveryRun ==
  [][lastOp' = "schedule" =>
       LET clock == unit'.ctxTime
           cursor == unit.pulse.lastScheduledTime
           period == 10000 \div unit.pulse.beat
       IN  /\ clock - unit.ctxTime <= 11000
           /\ cursor >= clock
           /\ { b \in unit.pulse.events : b.time < cursor } \subseteq unit'.pulse.events
           /\ unit'.pulse.lastScheduledTime > cursor =>
                Trapezoid(cursor, period) \subseteq unit'.pulse.events
           /\ Breakpoint(unit.started + 20, "ramp", 1) \in unit'.pulse.events
           /\ \A b \in unit'.pulse.events :
                (b.kind = "ramp" /\ b.value = 1) =>
                  \/ Breakpoint(b.time + period, "ramp", 1) \in unit'.pulse.events
                  \/ b.time - 20 + period >= clock + 11000]_vars

\* a run 1.1 s after the run before it found the cursor exactly at the clock
RunAtTheCursor ==
  /\ lastOp = "schedule"
  /\ calls >= 2
  /\ \E k \in 1 .. 20 :
       /\ unit.ctxTime = unit.started + k * 11000
       /\ (unit.ctxTime - unit.started) % (10000 \div unit.pulse.beat) = 0
       /\ Trapezoid(unit.ctxTime, 10000 \div unit.pulse.beat) \subseteq unit.pulse.events

------------------------------------------------------------------------------
(* Properties of the scheduler's cursor, under SpecSuspend *)

\* C21: every schedulePulses batch starts at max(lastScheduledTime, now):
\* no gain breakpoint is scheduled at a time earlier than the audio clock at
\* the moment of scheduling, and after a suspension that leaves
\* lastScheduledTime more than 0.1 s in the past the batch starts at now,
\* with no cycles for the missed interval.
BatchStartsAtCursorOrNow ==
  [][lastOp' = "schedule" =>
       LET clock == unit'.ctxTime
           cursor == unit.pulse.lastScheduledTime
           from == IF cursor >= clock THEN cursor ELSE clock
           period == 10000 \div unit.pulse.beat
       IN  /\ \A b \in unit'.pulse.events \ unit.pulse.events : b.time >= from
           /\ from < clock + 11000 =>
                /\ Trapezoid(from, period) \subseteq unit'.pulse.events
                /\ unit'.pulse.lastScheduledTime >= clock + 11000
           /\ cursor < clock - 1000 =>
                /\ Trapezoid(clock, period) \subseteq unit'.pulse.events
                /\ \A b \in unit'.pulse.events :
                     (cursor < b.time /\ b.time < clock) => b \in unit.pulse.events]_vars

\* a run found its cursor more than 0.1 s behind the clock and scheduled
\* from the clock on
ResumedAfterSuspension ==
  /\ lastOp = "schedule"
  /\ unit.pulse.beat = 50
  /\ \E b \in unit.pulse.events :
       /\ b = [time |-> unit.ctxTime, kind |-> "set", value |-> 0]
       /\ (b.time - unit.started) % (10000 \div unit.pulse.beat) # 0

------------------------------------------------------------------------------
(* Properties of the cycles at any tempo, under SpecTempo *)

\* C23: for every beat frequency the pulse scheduler can hold (any value of
\* at least 1 Hz set by setBeatFrequency, or the value passed to start), the
\* breakpoints of each scheduled cycle are in time order: attack start <
\* attack end (start + 2 ms) <= release start (end of the half period - 2 ms)
\* < release end <= end of the cycle.
CycleInTimeOrder ==
  [][lastOp' \in {"start", "schedule"} =>
       LET period == 10000 \div unit'.pulse.beat
       IN  \A b \in unit'.pulse.events \ unit.pulse.events :
             (b.kind = "ramp" /\ b.value = 1) =>
               LET attackStart == b.time - 20
                   releaseStart == attackStart + period \div 2 - 20
                   releaseEnd == attackStart + period \div 2
               IN  /\ Trapezoid(attackStart, period) \subseteq unit'.pulse.events
                   /\ attackStart < b.time
                   /\ b.time <= releaseStart
                   /\ releaseStart < releaseEnd
                   /\ releaseEnd <= attackStart + period]_vars

------------------------------------------------------------------------------
(* Properties of resume at the end of the session *)

\* every gain automation of the layers targets silence
AllSilent(s) ==
  /\ s.engine.gain = 0 /\ s.noise.gain = 0 /\ s.isochronic.gain = 0
  /\ s.ambient.gain = 0 /\ s.phasedNoise.gain = 0

\* the elapsed time resume() recomputes for the paused manager s
ElapsedOnResume(s) == s.pausedAt - s.startTime - s.pauseOffset

\* C12: resume() on a paused session whose recomputed elapsed time is >=
\* duration enters complete and emits the completion snapshot; the tick
\* loop is not restarted and no layer is faded back to its playing volume.
ResumePastEndCompletes ==
  [][ (/\ lastOp' = "resume"
       /\ sm.preset # NoPreset
       /\ ElapsedOnResume(sm) >= Presets[sm.preset].duration)
      => /\ sm'.phase = "complete"
         /\ sm'.pausedAt = 0
         /\ sm'.emitted /\ sm'.reported = "complete"
         /\ ~TickSourceArmed(sm')
         /\ AllSilent(sm') ]_vars

\* resume() has completed a session that was paused past its end
ResumedPastEnd ==
  /\ lastOp = "resume"
  /\ sm.phase = "complete"
  /\ sm.emitted /\ sm.reported = "complete"
  /\ sm.engine.running

------------------------------------------------------------------------------
(* Properties of the phase, under SpecPhases *)

\* the phase rule as the specification words it; times in ms
ReturnStart(p) ==
  IF Len(p.frequencyEnvelope) < 3 THEN (85 * p.duration) \div 100
  ELSE p.frequencyEnvelope[Len(p.frequencyEnvelope) - 1].time

PhaseRule(p, t) ==
  IF t < p.frequencyEnvelope[2].time THEN "induction"
  ELSE IF p.hasReturnPhase /\ t > ReturnStart(p) THEN "return"
  ELSE "main"

\* C13: with an envelope of at least 2 keyframes, after every tick or seek
\* at elapsed t < duration the phase is induction if t < env[1].time,
\* otherwise return if hasReturnPhase and t > returnStart, otherwise main.
PhaseFollowsRule ==
  (/\ lastOp \in {"tick", "seek"}
   /\ sm.preset # NoPreset
   /\ Len(Presets[sm.preset].frequencyEnvelope) >= 2
   /\ sm.elapsed < Presets[sm.preset].duration)
  => sm.phase = PhaseRule(Presets[sm.preset], sm.elapsed)

\* the example of the specification: a tick at 90 s of the 180 s session
\* with keyframes at 0, 60, 120 and 180 s reports main
TickInMainAtNinety ==
  /\ lastOp = "tick"
  /\ sm.preset = 1
  /\ sm.elapsed = 90000
  /\ sm.phase = "main" /\ sm.reported = "main"

------------------------------------------------------------------------------
(* Properties of degenerate envelopes, under SpecDegenerate *)

EnvelopeOf(s) == Presets[s.preset].frequencyEnvelope

\* start() with an empty envelope does not reject
EmptyEnvelopeStarts ==
  (lastOp = "start" /\ sm.preset # NoPreset /\ Len(EnvelopeOf(sm)) = 0)
  => ~sm.threw

\* the frequency a tick or a seek reports over an envelope of fewer than two
\* keyframes: 10 Hz for none, the keyframe's beatFreq for one (apart from
\* the habituation term a tick adds in the main phase)
DegenerateReportsConstant ==
  (lastOp \in {"tick", "seek"} /\ sm.emitted /\ sm.preset # NoPreset
     /\ sm.snapshot.phase # "complete" /\ Len(EnvelopeOf(sm)) < 2)
  => sm.snapshot.beatFreq
       = IF Len(EnvelopeOf(sm)) = 0 THEN Rat(10, 1)
         ELSE Rat(EnvelopeOf(sm)[1].beatFreq, 1)

\* C14: a session with an empty frequency envelope is constant at the
\* default 10 Hz: start() succeeds and every tick and seek reports that
\* frequency; a single-point envelope yields its one beatFreq at every
\* elapsed time.
DegenerateEnvelopeIsConstant == EmptyEnvelopeStarts /\ DegenerateReportsConstant

------------------------------------------------------------------------------
(* Properties of a failed ambient load, under SpecAsync *)

\* what of the session does not belong to the ambient layer
SessionCore(s) ==
  <<s.phase, s.startTime, s.pausedAt, s.pauseOffset, s.animFrameId, s.fallbackInterval,
    s.engine, s.noise, s.phasedNoise, s.isochronic, s.starting, s.ctx>>

\* the noise layer the preset asks for is started and faded to its volume
NoiseFadedIn(s) ==
  LET p == Presets[s.preset]
  IN  IF s.isGuidedSession /\ ScriptOf(s).phasedNoise
        THEN s.phasedNoise.running /\ s.phasedNoise.gain = p.noiseVolume * s.volume
      ELSE IF p.noiseType # "none"
        THEN s.noise.running /\ s.noise.gain = p.noiseVolume * s.volume
      ELSE ~s.noise.running /\ ~s.phasedNoise.running

\* the session start() leaves behind when no ambient sound is selected
StartedWithoutAmbient(s, t) ==
  /\ ~s.threw /\ ~s.starting
  /\ s.phase = "induction"
  /\ s.startTime = t /\ s.pausedAt = 0 /\ s.pauseOffset = 0
  /\ TickSourceArmed(s)
  /\ s.engine.running /\ s.engine.gain = s.volume * 100
  /\ NoiseFadedIn(s)

------------------------------------------------------------------------------
(* Properties of the narration fallback, under SpecNarration *)

\* the spoken cues dispatched with narration enabled on a running engine
Dispatched == {i \in 1 .. Len(NarrationCues) : unit.at[i] # "none" /\ unit.v.ctx}

\* C16 as stated: a dispatched cue is synthesised exactly when the manifest
\* is missing or empty for the track or its clip failed to fetch or decode,
\* and its clip is played exactly when neither is so and the clip has come.
SynthesisOnlyOnFailure ==
  \A i \in Dispatched :
    /\ i \in unit.v.spoken
         <=> (unit.files \in {NoManifest, 0} \/ unit.fetched[i] = "failed")
    /\ i \in unit.v.started
         <=> (unit.files \notin {NoManifest, 0} /\ unit.fetched[i] = "ok")

\* C16: for each spoken cue dispatched with narration enabled, speech
\* synthesis is requested for that cue exactly when the manifest is missing,
\* empty or still loading at the time of the dispatch, or the cue's clip
\* fails to fetch or decode; otherwise the clip is played and synthesis is
\* not requested; a failure on one cue does not switch later cues.
SynthesisPerCue ==
  \A i \in Dispatched :
    /\ i \in unit.v.spoken
         <=> (unit.at[i] # "present" \/ unit.fetched[i] = "failed")
    /\ i \in unit.v.started
         <=> (unit.at[i] = "present" /\ unit.fetched[i] = "ok")

\* the first cue was synthesised because its clip failed, and the last cue
\* played its clip
ClipPlayedAfterFailure ==
  /\ unit # NoUnit /\ "at" \in DOMAIN unit
  /\ unit.v.ctx
  /\ unit.at[1] = "present" /\ unit.fetched[1] = "failed" /\ 1 \in unit.v.spoken
  /\ unit.at[4] = "present" /\ unit.fetched[4] = "ok" /\ 4 \in unit.v.started
  /\ 4 \notin unit.v.spoken

------------------------------------------------------------------------------
(* Properties of the carrier layers, under SpecCarriers *)

\* C17: for a carrier layer with fixedBeatFreq set, the right oscillator's
\* frequency is carrierFreq + fixedBeatFreq after start and stays so after
\* every rampBeatFrequency and setBeatFrequency call, whatever beat
\* frequency the envelope drives the other layers to.
FixedLayerKeepsOffset ==
  \A i \in DOMAIN unit.carriers :
    unit.carriers[i].fixedBeatFreq # 0
      => unit.engine.pairs[i].right
           = unit.carriers[i].carrierFreq + unit.carriers[i].fixedBeatFreq

------------------------------------------------------------------------------
(* Properties of the payload given to the callback, under Spec *)

\* the phase of a session at elapsed t
PhaseOf(p, t) == IF t >= p.duration THEN "complete" ELSE PhaseRule(p, t)

\* the payload's phase and beat frequency are those of the elapsed time it
\* reports (the habituation term a tick adds in the main phase left aside)
SnapshotOfOneInstant(s) ==
  LET p == Presets[s.preset]
  IN  /\ s.snapshot.phase = PhaseOf(p, s.snapshot.elapsed)
      /\ s.snapshot.beatFreq
           = AtLeastTenth(interpolateEnvelope(p.frequencyEnvelope, s.snapshot.elapsed))

\* the payloads of ticks that do not complete the session, and of seeks
RunningSnapshotConsistent ==
  (sm.emitted /\ lastOp \in {"tick", "seek"} /\ sm.snapshot.phase # "complete")
  => SnapshotOfOneInstant(sm)

\* C18: every snapshot given to the callback by a tick, a seek or
\* completion is internally consistent: its phase is the phase rule applied
\* to the elapsed value it reports and its beatFreq is the target frequency
\* for that same elapsed value, never one computed for another elapsed time.
SnapshotConsistent ==
  (sm.emitted /\ lastOp \in {"tick", "seek"}) => SnapshotOfOneInstant(sm)

\* C19: in every snapshot given to the callback (tick, seek and
\* completion) the reported elapsed time lies in [0, duration).
ReportedElapsedBelowDuration ==
  (sm.emitted /\ sm.preset # NoPreset)
  => 0 <= sm.snapshot.elapsed /\ sm.snapshot.elapsed < Duration(sm)

------------------------------------------------------------------------------
(* Properties of seek at the ends of the session, under Spec *)

\* C20: seek(target) with target >= duration sets elapsed to
\* duration - 0.1 and with target < 0 sets it to 0, and a seek never moves
\* the session to complete: the phase becomes complete only in a tick or a
\* resume.
SeekClampsAndNeverCompletes ==
  [][/\ lastOp' = "seek" =>
          /\ lastArg' >= Duration(sm') => sm'.elapsed = Duration(sm') - 100
          /\ lastArg' < 0 => sm'.elapsed = 0
          /\ sm'.phase # "complete"
     /\ (sm.phase # "complete" /\ sm'.phase = "complete")
          => lastOp' \in {"tick", "resume"}]_vars

\* a seek past the end left a running session a tenth of a second before
\* its end
SoughtPastEnd ==
  /\ lastOp = "seek"
  /\ lastArg >= Duration(sm)
  /\ sm.elapsed = Duration(sm) - 100
  /\ sm.phase \in {"main", "return"}
  /\ sm.emitted /\ sm.snapshot.elapsed = Duration(sm) - 100


-------------------------------------------------------------------------------
\* C31: while the session is paused the gain target of every audio layer
\* (tone, noise, phased noise, ambient, isochronic, resonant tone) is 0,
\* whatever operation or continuation of an asynchronous call came since
LayerGains(s) == { s.engine.gain, s.noise.gain, s.phasedNoise.gain, s.ambient.gain,
                   s.isochronic.gain, s.resonantTone.gain }

PausedLayersSilent == sm.pausedAt > 0 => LayerGains(sm) = {0}

-------------------------------------------------------------------------------
\* C32: toggleIsochronic() changes only the isochronic engine and the
\* isochronicEnabled flag (phase, clock fields, tick source and every other
\* engine are as before), and changes nothing at all when the manager has
\* no preset or no context or the preset is not isochronicAvailable
ToggleTouchesOnlyIsochronic ==
  [][ToggleIsochronic =>
       /\ sm' = [Fresh(sm) EXCEPT !.isochronic = sm'.isochronic,
                                  !.isochronicEnabled = sm'.isochronicEnabled]
       /\ (sm.preset = NoPreset \/ sm.ctx = 0
             \/ ~Presets[IF sm.preset = NoPreset THEN 1 ELSE sm.preset].isochronicAvailable)
            => sm' = Fresh(sm)]_vars

ToggledOnWhilePlaying ==
  sm.isochronicEnabled /\ sm.isochronic.running /\ isPlaying(sm) /\ TickSourceArmed(sm)

-------------------------------------------------------------------------------
\* C33: once a start() that was interrupted by stop() has settled (no preset,
\* no start in flight) the manager is idle with no tick source armed, no
\* visibility listener, no engine running and no ambient source playing
NoEngineRunning(s) ==
  /\ ~s.engine.running /\ ~s.noise.running /\ ~s.phasedNoise.running
  /\ ~s.isochronic.running /\ ~s.resonantTone.running
  /\ s.ambient.source = 0
  /\ \A n \in 1 .. Len(s.ambient.nodes) :
       s.ambient.nodes[n].state = "playing" => IsClosed(s, s.ambient.nodes[n].ctx)

InterruptedStartLeavesIdle ==
  (sm.preset = NoPreset /\ ~sm.starting)
    => /\ sm.phase = "idle"
       /\ ~TickSourceArmed(sm)
       /\ ~sm.visListener
       /\ NoEngineRunning(sm)

-------------------------------------------------------------------------------
\* C34: the teardown timer of selecting 'none' stops only the source that
\* was playing when it was scheduled: a source created since, in the same
\* session or in a new one, and playing when the timer fires, plays on
NoneTimerSparesLaterSources ==
  [][lastOp' = "noneTimer" =>
       \A n \in 1 .. Len(unit.s.ambient.nodes) :
         (n > lastArg' /\ unit.s.ambient.nodes[n].state = "playing")
           => /\ unit'.s.ambient.nodes[n].state = "playing"
              /\ (unit.s.ambient.source = n => unit'.s.ambient.source = n)]_vars

-------------------------------------------------------------------------------
\* C35: once every overlapping switchSound call has settled (none failed,
\* the engine not stopped), at most one ambient source is playing, it is the
\* one the engine references and it plays the sound requested last; every
\* other source that was created has been stopped
PlayingSources(a) == { n \in 1 .. Len(a.nodes) : a.nodes[n].state = "playing" }

OneSourceWhenSettled ==
  (~unit.stopped /\ ~unit.failed /\ unit.s.pending = << >>)
    => /\ PlayingSources(unit.s.ambient) \subseteq {unit.s.ambient.source}
       /\ unit.s.ambient.source # 0 => unit.s.ambient.currentSound = unit.requested

-------------------------------------------------------------------------------
\* C36: in every reachable state the keys of bufferCache are the entries of
\* cacheOrder, and cacheOrder holds no key twice
CacheAgreesWithOrder ==
  /\ unit.ambient.bufferCache =
       { unit.ambient.cacheOrder[i] : i \in 1 .. Len(unit.ambient.cacheOrder) }
  /\ \A i, j \in 1 .. Len(unit.ambient.cacheOrder) :
       unit.ambient.cacheOrder[i] = unit.ambient.cacheOrder[j] => i = j

-------------------------------------------------------------------------------
\* C37: a session emits the completion snapshot at most once (and with it
\* plays the end chime at most once): no operation on a session that is
\* already complete hands the callback a completion snapshot again
CompletionEmittedOnce ==
  [][~(/\ sm.phase = "complete"
       /\ lastOp' \in {"tick", "resume", "seek"}
       /\ sm'.emitted
       /\ sm'.snapshot.phase = "complete")]_vars

-------------------------------------------------------------------------------
\* C39: with the voice disabled or speech synthesis unavailable, tick(elapsed)
\* still consumes every due cue and returns shouldChime = TRUE when one of
\* the cues it consumed has chime or chimeOnly set, and seek still sets the
\* cursor
DueAt(v, elapsed) == Cardinality({i \in 1 .. Len(v.cues) : v.cues[i].time <= elapsed})

SilencedVoiceStillTicks ==
  (~unit.v.enabled \/ ~unit.v.available) =>
    /\ \A elapsed \in TickTimes :
         LET r == VoiceCueEngine_tick(unit.v, elapsed)
         IN  /\ r.v.nextCueIndex >= DueAt(unit.v, elapsed)
             /\ r.shouldChime =
                  (\E i \in unit.v.nextCueIndex + 1 .. r.v.nextCueIndex :
                     unit.v.cues[i].chime \/ unit.v.cues[i].chimeOnly)
    /\ \A time \in SeekTimes :
         VoiceCueEngine_seek(unit.v, time).nextCueIndex = FirstAtOrAfter(unit.v.cues, time)

-------------------------------------------------------------------------------
\* C38: after every pause, resume, seek and stop of the hook, the hook's
\* isPlaying, isPaused, phase and elapsed are the manager's
HookMirrorsManager ==
  lastOp \in {"hook.pause", "hook.resume", "hook.seek", "hook.stop"} =>
    /\ unit.hook.isPlaying = isPlaying(unit.s)
    /\ unit.hook.isPaused = isPaused(unit.s)
    /\ unit.hook.phase = unit.s.phase
    /\ unit.hook.elapsed = unit.s.elapsed

-------------------------------------------------------------------------------
\* C40: the timer of the hook's stop() does not tear down a session that a
\* later startSession has started: when it fires after that startSession has
\* resolved, a session that is playing keeps playing
RestartSurvivesFadeTimer ==
  [][(lastOp' = "hook.timer" /\ unit.restarted /\ isPlaying(unit.s))
       => isPlaying(unit'.s)]_vars
====
